---- MODULE Spec2Model ----
(***************************************************************************)
(* redactor-pro: the OCR worker wrapper (OCREngineWorker), the worker      *)
(* script behind it (ocr.worker.ts), the detection run of the page         *)
(* (handleDetectPII) and the region store with render and export.          *)
(***************************************************************************)
EXTENDS Integers, Sequences, FiniteSets, TLC

\* Bounds of the model.
MaxInits == 2      \* initialize() runs that get past the isInitialized check
MaxCalls == 2      \* extractText() calls
MaxPages == 2      \* pages of the document
MaxIds == 3        \* regions ever added to the store
CanvasWidth == 12  \* canvas size, in pixels
CanvasHeight == 10
MaxTextLen == 4     \* characters of a text searched for words
MaxWordLen == 2     \* characters of a word
MaxWords == 2       \* words of a word list
MinCardLen == 12    \* digits of a card number tried
MaxCardLen == 20
MaxTokens == 2      \* tokens of a document
MaxRangeEnd == 3    \* end of the character ranges merged
MaxMerged == 2      \* detections on either side of a merge
MaxLineWords == 3   \* words of a detection laid out in lines
MaxComposited == 2  \* regions applied to a canvas at once
MaxRenders == 3     \* calls of renderPage
MaxCacheCalls == 3  \* calls on the page cache

\* /^\d{13,19}$/ of isValidCreditCard
MinCardDigits == 13
MaxCardDigits == 19

\* the least width and height of a drawn region in handleMouseUp
MinManualSize == 5

\* MAX_CACHED_PAGES and the default keepRange of clearDistantPages
MaxCachedPages == 10
KeepRange == 3

Inits == 1..MaxInits
Calls == 1..MaxCalls
ReqIds == 1..MaxCalls

VARIABLES
  worker,            \* this.worker: 0 is null, else the Worker made by that initialize() run
  isInitialized,     \* this.isInitialized
  requestCounter,    \* this.requestCounter
  pendingRequests,   \* this.pendingRequests: requestId -> the extractText call that waits
  reqTimer,          \* request ids whose extraction timer is armed
  progressCallback,  \* this.progressCallback: wrappers of initialize() runs around a base
  initPromise,       \* the promise of each initialize() run
  initTimer,         \* initialize() runs whose initTimeout timer is armed
  call,              \* each extractText() call
  wk,                \* each Worker: "none", "running", "terminated"
  engineReady,       \* OCREngineImpl.isInitialized inside each Worker
  inbox,             \* messages posted to each Worker, not yet handled
  outbox,            \* messages each Worker posted, not yet delivered to onmessage
  isProcessing,      \* useProcessing().isProcessing
  manualOnlyMode,    \* IndexPage manualOnlyMode
  mode,              \* IndexPage mode
  errorType          \* per call: the ErrorType the detection run reported

ocrVars == <<worker, isInitialized, requestCounter, pendingRequests, reqTimer,
             progressCallback, initPromise, initTimer, call, wk, engineReady,
             inbox, outbox, isProcessing, manualOnlyMode, mode, errorType>>


----------------------------------------------------------------------------
\* Error messages, as the strings the code builds (one character per element).

\* "OCR worker initialization timeout - language data download may have failed"
MsgInitTimeout ==
  << "O", "C", "R", " ", "w", "o", "r", "k", "e", "r", " ", "i", "n", "i",
     "t", "i", "a", "l", "i", "z", "a", "t", "i", "o", "n", " ", "t", "i",
     "m", "e", "o", "u", "t", " ", "-", " ", "l", "a", "n", "g", "u", "a",
     "g", "e", " ", "d", "a", "t", "a", " ", "d", "o", "w", "n", "l", "o",
     "a", "d", " ", "m", "a", "y", " ", "h", "a", "v", "e", " ", "f", "a",
     "i", "l", "e", "d" >>

\* "OCR Worker error: "
MsgWorkerError ==
  << "O", "C", "R", " ", "W", "o", "r", "k", "e", "r", " ", "e", "r", "r",
     "o", "r", ":", " " >>

\* "Failed to create OCR worker: Unknown error"
MsgCreateFailed ==
  << "F", "a", "i", "l", "e", "d", " ", "t", "o", " ", "c", "r", "e", "a",
     "t", "e", " ", "O", "C", "R", " ", "w", "o", "r", "k", "e", "r", ":",
     " ", "U", "n", "k", "n", "o", "w", "n", " ", "e", "r", "r", "o", "r" >>

\* "OCR worker failed to initialize"
MsgWorkerNull ==
  << "O", "C", "R", " ", "w", "o", "r", "k", "e", "r", " ", "f", "a", "i",
     "l", "e", "d", " ", "t", "o", " ", "i", "n", "i", "t", "i", "a", "l",
     "i", "z", "e" >>

\* "OCR operation timeout"
MsgOpTimeout ==
  << "O", "C", "R", " ", "o", "p", "e", "r", "a", "t", "i", "o", "n", " ",
     "t", "i", "m", "e", "o", "u", "t" >>

\* "OCR worker terminated"
MsgTerminated ==
  << "O", "C", "R", " ", "w", "o", "r", "k", "e", "r", " ", "t", "e", "r",
     "m", "i", "n", "a", "t", "e", "d" >>

\* "Failed to extract text: "
MsgExtractPrefix ==
  << "F", "a", "i", "l", "e", "d", " ", "t", "o", " ", "e", "x", "t", "r",
     "a", "c", "t", " ", "t", "e", "x", "t", ":", " " >>

\* "OCR recognition returned invalid result"
MsgInvalidResult ==
  << "O", "C", "R", " ", "r", "e", "c", "o", "g", "n", "i", "t", "i", "o",
     "n", " ", "r", "e", "t", "u", "r", "n", "e", "d", " ", "i", "n", "v",
     "a", "l", "i", "d", " ", "r", "e", "s", "u", "l", "t" >>

\* "Failed to create OffscreenCanvas context"
MsgNoContext ==
  << "F", "a", "i", "l", "e", "d", " ", "t", "o", " ", "c", "r", "e", "a",
     "t", "e", " ", "O", "f", "f", "s", "c", "r", "e", "e", "n", "C", "a",
     "n", "v", "a", "s", " ", "c", "o", "n", "t", "e", "x", "t" >>

\* "Failed to initialize OCR engine: Unknown error"
MsgEngineInitFailed ==
  << "F", "a", "i", "l", "e", "d", " ", "t", "o", " ", "i", "n", "i", "t",
     "i", "a", "l", "i", "z", "e", " ", "O", "C", "R", " ", "e", "n", "g",
     "i", "n", "e", ":", " ", "U", "n", "k", "n", "o", "w", "n", " ", "e",
     "r", "r", "o", "r" >>

\* "Cannot read properties of undefined": a TypeError out of the detection stage
MsgPIIStage ==
  << "C", "a", "n", "n", "o", "t", " ", "r", "e", "a", "d", " ", "p", "r",
     "o", "p", "e", "r", "t", "i", "e", "s", " ", "o", "f", " ", "u", "n",
     "d", "e", "f", "i", "n", "e", "d" >>

\* "ocr"
NeedleOcr ==
  << "o", "c", "r" >>

\* "text extraction"
NeedleTextExtraction ==
  << "t", "e", "x", "t", " ", "e", "x", "t", "r", "a", "c", "t", "i", "o",
     "n" >>


\* String.prototype.toLowerCase on one character.
LowerChar(ch) ==
  CASE ch = "A" -> "a" [] ch = "B" -> "b" [] ch = "C" -> "c" [] ch = "D" -> "d"
    [] ch = "E" -> "e" [] ch = "F" -> "f" [] ch = "G" -> "g" [] ch = "H" -> "h"
    [] ch = "I" -> "i" [] ch = "J" -> "j" [] ch = "K" -> "k" [] ch = "L" -> "l"
    [] ch = "M" -> "m" [] ch = "N" -> "n" [] ch = "O" -> "o" [] ch = "P" -> "p"
    [] ch = "Q" -> "q" [] ch = "R" -> "r" [] ch = "S" -> "s" [] ch = "T" -> "t"
    [] ch = "U" -> "u" [] ch = "V" -> "v" [] ch = "W" -> "w" [] ch = "X" -> "x"
    [] ch = "Y" -> "y" [] ch = "Z" -> "z" [] OTHER -> ch

ToLowerCase(s) == [i \in 1..Len(s) |-> LowerChar(s[i])]

\* String.prototype.includes
Includes(s, needle) ==
  \E i \in 1..(Len(s) - Len(needle) + 1) : SubSeq(s, i, i + Len(needle) - 1) = needle

----------------------------------------------------------------------------
\* The text of an Error by its kind.  The worker's own texts are built as
\* OCREngineImpl builds them and carried over by `new Error(message.error)`.
ErrorMessage(e) ==
  CASE e = "createFailed" -> MsgCreateFailed
    [] e = "initTimeout"  -> MsgInitTimeout
    [] e = "workerError"  -> MsgWorkerError
    [] e = "workerNull"   -> MsgWorkerNull
    [] e = "opTimeout"    -> MsgOpTimeout
    [] e = "terminated"   -> MsgTerminated
    [] e = "invalid"      -> MsgExtractPrefix \o MsgInvalidResult
    [] e = "context"      -> MsgExtractPrefix \o MsgNoContext
    [] e = "engineInit"   -> MsgEngineInitFailed
    [] OTHER              -> <<>>

\* handleDetectPII, the catch block: which ErrorType a message is filed under.
CatchClass(msg) ==
  IF \/ Includes(ToLowerCase(msg), NeedleOcr)
     \/ Includes(ToLowerCase(msg), NeedleTextExtraction)
  THEN "OCR_FAILED"
  ELSE "PII_DETECTION_FAILED"

Unsettled(c) == call[c].st \in {"waitInit", "posted"}
Settled(c) == call[c].st \in {"resolved", "rejected"}

\* A promise settles once: resolve and reject of a settled call change nothing.
ResolveCall(f, c) ==
  IF f[c].st \in {"resolved", "rejected"} THEN f
  ELSE [f EXCEPT ![c].st = "resolved"]

RejectCall_Ignored(f, c, e) == f

RejectCall(f, c, e) ==
  IF f[c].st \in {"resolved", "rejected"} THEN f
  ELSE [f EXCEPT ![c].st = "rejected", ![c].err = e]

\* The detection runs whose extractText settles in this step, given the calls after it.
JustSettled(nc) ==
  {c \in Calls : /\ nc[c].detect
                 /\ call[c].st \notin {"resolved", "rejected"}
                 /\ nc[c].st \in {"resolved", "rejected"}}

\* handleDetectPII after its await: the PII stage on success, the catch block on failure.
RunOutcome(nc, c) ==
  IF nc[c].st = "resolved"
  THEN IF nc[c].piiOk THEN "ok" ELSE CatchClass(MsgPIIStage)
  ELSE CatchClass(ErrorMessage(nc[c].err))

Session(nc, starting) ==
  LET done == JustSettled(nc)
      ocr  == \E c \in done : RunOutcome(nc, c) = "OCR_FAILED"
      ok   == \E c \in done : RunOutcome(nc, c) = "ok"
  IN /\ errorType' = [c \in Calls |-> IF c \in done THEN RunOutcome(nc, c) ELSE errorType[c]]
     /\ isProcessing' = IF done # {} THEN FALSE ELSE (isProcessing \/ starting)
     /\ manualOnlyMode' = (manualOnlyMode \/ ocr)
     /\ mode' = IF ocr THEN "manual-redact" ELSE IF ok THEN "review" ELSE mode

----------------------------------------------------------------------------
\* Messages.
InitMsg == [type |-> "init", requestId |-> 0]
ExtractMsg(id) == [type |-> "extractText", requestId |-> id]

Progress(p, s) == [type |-> "progress", requestId |-> 0, progress |-> p, status |-> s, error |-> "none"]
SuccessMsg(id) == [type |-> "success", requestId |-> id, progress |-> 0, status |-> "", error |-> "none"]
ErrorMsg(id, e) == [type |-> "error", requestId |-> id, progress |-> 0, status |-> "", error |-> e]

PEngineReady == Progress(100, "OCR engine ready")
PInitialized == Progress(100, "OCR engine initialized")

NoCall == [st |-> "idle", att |-> 0, req |-> 0, err |-> "none", detect |-> FALSE, piiOk |-> TRUE]
NoCallback == [wraps |-> <<>>, base |-> "none"]

sessionVars == <<isProcessing, manualOnlyMode, mode, errorType>>
workerSide == <<wk, engineReady, inbox, outbox>>

FreeInits == {a \in Inits : initPromise[a] = "unused"}
FreeCalls == {c \in Calls : call[c].st = "idle"}
Lowest(S) == CHOOSE x \in S : \A y \in S : x <= y

----------------------------------------------------------------------------
\* The page: the region store (useRedactions), the canvas with its controller
\* (CanvasController), the detections of the page (IndexPage) and the export.
\* Lengths are in canvas pixels; zoom is 1 and pan is 0 throughout.

Pages == 1..MaxPages
Pixels == (0..(CanvasWidth - 1)) \X (0..(CanvasHeight - 1))

Abs(n) == IF n < 0 THEN -n ELSE n

BBox(x0, y0, x1, y1) == [x0 |-> x0, y0 |-> y0, x1 |-> x1, y1 |-> y1]
Rect(x, y, w, h) == [x |-> x, y |-> y, width |-> w, height |-> h]

\* What detectPII can return for a page: one word, two words on two lines, and a
\* second e-mail address 3 pixels to the right of the first.
\* A confidence is a fraction.
Confidence(num, den) == [num |-> num, den |-> den]

DetEmail == [type |-> "email", confidence |-> Confidence(95, 100),
             words |-> <<BBox(0, 0, 6, 5)>>]
DetPhone == [type |-> "phone", confidence |-> Confidence(85, 100),
             words |-> <<BBox(6, 0, 12, 5), BBox(0, 5, 6, 10)>>]
DetEmailNear == [type |-> "email", confidence |-> Confidence(95, 100),
                 words |-> <<BBox(3, 0, 9, 5)>>]
DetectionResults == {<<DetEmail>>, <<DetEmail, DetPhone>>, <<DetEmail, DetEmailNear>>}

\* What the mouse can draw: a region, and one below the size that counts.
Drawings == {Rect(6, 5, 6, 5), Rect(2, 2, 3, 3)}

\* The pixels fillRect(x, y, width, height) paints.
PixelsOf(r) ==
  {p \in Pixels : /\ r.x <= p[1] /\ p[1] < r.x + r.width
                  /\ r.y <= p[2] /\ p[2] < r.y + r.height}

PixelsOfAll(rs) == UNION {PixelsOf(rs[i]) : i \in 1..Len(rs)}

\* A canvas image: the pixels under an opaque black box and the pixels under an
\* overlay of the controller; every other pixel shows the document.
CleanImage == [black |-> {}, overlay |-> {}]
NoImage == [black |-> {<<-1, -1>>}, overlay |-> {}]
NoExport == [page |-> 0, image |-> CleanImage, stored |-> <<>>]

VARIABLES
  currentPage,        \* useDocument().currentPage
  redactions,         \* useRedactions().redactions: page -> regions
  nextId,             \* region ids handed out so far
  piiDetections,      \* IndexPage piiDetections; page is the page they were found on
  enabledDetections,  \* IndexPage enabledDetections, as indexes into piiDetections
  regions,            \* CanvasController.regions
  canvas,             \* what the canvas shows
  pageCache,          \* CanvasController.pageCache
  exported            \* the last export: page, image and the regions then stored

uiVars == <<currentPage, redactions, nextId, piiDetections, enabledDetections,
            regions, canvas, pageCache, exported>>

\* A call of a function of the detection engine or of a region store.
VARIABLES
  input,     \* the arguments of the call at hand
  output,    \* what the call returned
  detector,  \* PIIDetectionEngineImpl: isInitialized, useONNX, onnxSession
  selectedRegionId   \* useRedactions().selectedRegionId: 0 is null

\* PDFRenderer
VARIABLES
  currentRenderTask,  \* this.currentRenderTask: 0 is null, else the task of that call
  renderCall,         \* where each call of renderPage stands
  renderTask          \* what the render task of each call does

renderVars == <<currentRenderTask, renderCall, renderTask>>

RenderCalls == 1..MaxRenders

InitRender ==
  /\ currentRenderTask = 0
  /\ renderCall = [c \in RenderCalls |-> "idle"]
  /\ renderTask = [c \in RenderCalls |-> "none"]

fnVars == <<input, output, detector, selectedRegionId, renderVars>>

engineVars == <<worker, isInitialized, requestCounter, pendingRequests, reqTimer,
                progressCallback, initPromise, initTimer, call, wk, engineReady,
                inbox, outbox, isProcessing, manualOnlyMode, errorType>>

\* A Map from page numbers to region lists is a function on the keys it holds.
EmptyMap == [p \in {} |-> <<>>]
MapSet(map, key, value) ==
  [p \in DOMAIN map \cup {key} |-> IF p = key THEN value ELSE map[p]]
MapDelete(map, key) == [p \in DOMAIN map \ {key} |-> map[p]]

\* getRegionsForPage(pageNumber)
GetRegionsForPage(map, page) == IF page \in DOMAIN map THEN map[page] ELSE <<>>

ApplyRedactions_Zoomed(image, rs) ==
  [image EXCEPT !.black =
     @ \cup PixelsOfAll([i \in 1..Len(rs) |->
                           Rect(2 * rs[i].x, 2 * rs[i].y, 2 * rs[i].width, 2 * rs[i].height)])]

\* RedactionManager.applyRedactions(canvas) with the manager holding rs
ApplyRedactions(image, rs) == [image EXCEPT !.black = @ \cup PixelsOfAll(rs)]

\* CanvasController.renderRedactionOverlays()
RenderRedactionOverlays(image, rs) == [image EXCEPT !.overlay = @ \cup PixelsOfAll(rs)]

\* The render effect of IndexPage for page with store map: the document page is drawn
\* afresh, the regions stored for the page are blacked out, the result is cached.
RenderedPage(map, page) ==
  LET rs == GetRegionsForPage(map, page)
  IN IF Len(rs) > 0 THEN ApplyRedactions(CleanImage, rs) ELSE CleanImage

\* CanvasController.cachePage(pageNumber); with MaxPages pages the cache stays
\* below its limit and no page is far from the current one.
CachePage(cache, page, image) == [cache EXCEPT ![page] = image]

RenderEffect(map, page) ==
  /\ canvas' = RenderedPage(map, page)
  /\ pageCache' = CachePage(pageCache, page, RenderedPage(map, page))

InitUI ==
  /\ currentPage = 1
  /\ redactions = EmptyMap
  /\ nextId = 0
  /\ piiDetections = <<>>
  /\ enabledDetections = {}
  /\ regions = <<>>
  /\ canvas = CleanImage
  /\ pageCache = [p \in Pages |-> IF p = 1 THEN CleanImage ELSE NoImage]
  /\ exported = NoExport

\* addAutoDetectedRegions: the words of a detection, split into lines.  A word
\* within 5 pixels of the y0 of the word before it stays on the line.
SameLine_Within(y0, lastY0) == Abs(y0 - lastY0) <= 5

SameLine(y0, lastY0) == Abs(y0 - lastY0) < 5

RECURSIVE GroupLines(_, _, _, _)
GroupLines(words, i, currentLine, lastY0) ==
  IF i > Len(words)
  THEN IF Len(currentLine) > 0 THEN <<currentLine>> ELSE <<>>
  ELSE IF lastY0 = -1 \/ SameLine(words[i].y0, lastY0)
       THEN GroupLines(words, i + 1, Append(currentLine, words[i]), words[i].y0)
       ELSE (IF Len(currentLine) > 0 THEN <<currentLine>> ELSE <<>>)
              \o GroupLines(words, i + 1, <<words[i]>>, words[i].y0)

\* addAutoDetectedRegions: one region per line, from its first word to its last.
RegionsOfDetection(detection, firstId) ==
  LET lines == GroupLines(detection.words, 1, <<>>, -1)
  IN [k \in 1..Len(lines) |->
        LET bbox == lines[k][1]
            lastBbox == lines[k][Len(lines[k])]
        IN [id |-> firstId + k - 1,
            x |-> bbox.x0, y |-> bbox.y0,
            width |-> lastBbox.x1 - bbox.x0, height |-> lastBbox.y1 - bbox.y0,
            piiType |-> detection.type, confidence |-> detection.confidence,
            isManual |-> FALSE,
            origin |-> detection.page]]

RECURSIVE NewRegions(_, _)
NewRegions(detections, firstId) ==
  IF detections = <<>> THEN <<>>
  ELSE LET rs == RegionsOfDetection(Head(detections), firstId)
       IN rs \o NewRegions(Tail(detections), firstId + Len(rs))

\* addAutoDetectedRegions(pageNumber, detections)
AddAutoDetectedRegions(map, pageNumber, detections) ==
  MapSet(map, pageNumber,
         GetRegionsForPage(map, pageNumber) \o NewRegions(detections, nextId + 1))

\* clearAllRegions(pageNumber)
ClearAllRegions(map, pageNumber) == MapDelete(map, pageNumber)

RemoveRegion_KeepsKey(map, pageNumber, regionId) ==
  MapSet(map, pageNumber,
         SelectSeq(GetRegionsForPage(map, pageNumber), LAMBDA r : r.id # regionId))

\* removeRegion(pageNumber, regionId)
RemoveRegion(map, pageNumber, regionId) ==
  LET filtered == SelectSeq(GetRegionsForPage(map, pageNumber), LAMBDA r : r.id # regionId)
  IN IF Len(filtered) = 0 THEN MapDelete(map, pageNumber)
     ELSE MapSet(map, pageNumber, filtered)

\* The detections of a result, marked with the page they were found on.
FoundOn(page, ds) ==
  [i \in 1..Len(ds) |-> [type |-> ds[i].type, confidence |-> ds[i].confidence,
                         words |-> ds[i].words, page |-> page]]

\* handleDetectPII when extraction and detection succeed, with result ds
DetectPII(ds) ==
  /\ nextId + Len(NewRegions(FoundOn(currentPage, ds), 1)) <= MaxIds
  /\ piiDetections' = FoundOn(currentPage, ds)
  /\ enabledDetections' = 1..Len(ds)
  /\ LET map == AddAutoDetectedRegions(redactions, currentPage, FoundOn(currentPage, ds))
     IN /\ redactions' = map
        /\ RenderEffect(map, currentPage)
  /\ nextId' = nextId + Len(NewRegions(FoundOn(currentPage, ds), 1))
  /\ mode' = "review"
  /\ UNCHANGED <<currentPage, regions, exported, engineVars>>
  /\ UNCHANGED fnVars

\* LeftRail onModeChange
SetMode(m) ==
  /\ mode # m
  /\ mode' = m
  /\ UNCHANGED <<uiVars, engineVars>>
  /\ UNCHANGED fnVars

\* CanvasController.handleMouseUp on a drawn rectangle r, with the callback that the
\* mode effect of IndexPage registered for the current page
HandleMouseUp(r) ==
  /\ mode = "manual-redact"
  /\ r.width >= 5 /\ r.height >= 5
  /\ nextId < MaxIds
  /\ LET detection == [type |-> "other", confidence |-> Confidence(100, 1),
                       page |-> currentPage,
                       words |-> <<BBox(r.x, r.y, r.x + r.width, r.y + r.height)>>]
         map == AddAutoDetectedRegions(redactions, currentPage, <<detection>>)
     IN /\ redactions' = map
        /\ RenderEffect(map, currentPage)
  /\ nextId' = nextId + 1
  /\ regions' = Append(regions, r)
  /\ UNCHANGED <<currentPage, piiDetections, enabledDetections, exported, mode, engineVars>>
  /\ UNCHANGED fnVars

\* handleToggleDetection(detectionId, enabled) from the switch of detection i
HandleToggleDetection(i) ==
  /\ i \in 1..Len(piiDetections)
  /\ LET detection == piiDetections[i]
         enabled == i \notin enabledDetections
         bbox == detection.words[1]
         rs == GetRegionsForPage(redactions, currentPage)
         matching == {k \in 1..Len(rs) : /\ Abs(rs[k].x - bbox.x0) < 5
                                         /\ Abs(rs[k].y - bbox.y0) < 5
                                         /\ rs[k].piiType = detection.type}
         map == IF enabled
                THEN AddAutoDetectedRegions(redactions, currentPage, <<detection>>)
                ELSE IF matching # {}
                THEN RemoveRegion(redactions, currentPage, rs[Lowest(matching)].id)
                ELSE redactions
     IN /\ enabled => nextId + Len(NewRegions(<<detection>>, 1)) <= MaxIds
        /\ enabledDetections' = IF enabled THEN enabledDetections \cup {i}
                                           ELSE enabledDetections \ {i}
        /\ redactions' = map
        /\ nextId' = IF enabled THEN nextId + Len(NewRegions(<<detection>>, 1)) ELSE nextId
        /\ RenderEffect(map, currentPage)
  /\ UNCHANGED <<currentPage, piiDetections, regions, exported, mode, engineVars>>
  /\ UNCHANGED fnVars

\* RightPanel onRemoveRegion(currentPage, r.id) for the k-th region listed
OnRemoveRegion(k) ==
  /\ k \in 1..Len(GetRegionsForPage(redactions, currentPage))
  /\ LET map == RemoveRegion(redactions, currentPage,
                             GetRegionsForPage(redactions, currentPage)[k].id)
     IN /\ redactions' = map
        /\ RenderEffect(map, currentPage)
  /\ UNCHANGED <<currentPage, nextId, piiDetections, enabledDetections, regions,
                 exported, mode, engineVars>>
  /\ UNCHANGED fnVars

\* LeftRail onClearAll: clearAllRegions(currentPage), canvasController.clearRegions()
OnClearAll ==
  /\ currentPage \in DOMAIN redactions \/ regions # <<>>
  /\ LET map == ClearAllRegions(redactions, currentPage)
     IN /\ redactions' = map
        /\ RenderEffect(map, currentPage)
  /\ regions' = <<>>
  /\ UNCHANGED <<currentPage, nextId, piiDetections, enabledDetections, exported,
                 mode, engineVars>>
  /\ UNCHANGED fnVars

\* goToPage(page)
GoToPage(page) ==
  /\ page \in Pages
  /\ page # currentPage
  /\ currentPage' = page
  /\ RenderEffect(redactions, page)
  /\ UNCHANGED <<redactions, nextId, piiDetections, enabledDetections, regions,
                 exported, mode, engineVars>>
  /\ UNCHANGED fnVars

\* CanvasController.renderPage(pageNumber): the cached image when there is one, then
\* the overlays of the regions the controller holds
ControllerRenderPage(pageNumber) ==
  RenderRedactionOverlays(IF pageCache[pageNumber] # NoImage THEN pageCache[pageNumber]
                          ELSE canvas,
                          regions)

\* handleExport(format)
HandleExport ==
  /\ LET rs == GetRegionsForPage(redactions, currentPage)
         image == ApplyRedactions(ControllerRenderPage(currentPage), rs)
     IN /\ canvas' = image
        /\ exported' = [page |-> currentPage, image |-> image, stored |-> rs]
  /\ UNCHANGED <<currentPage, redactions, nextId, piiDetections, enabledDetections,
                 regions, pageCache, mode, engineVars>>
  /\ UNCHANGED fnVars

NextUI ==
  \/ \E ds \in DetectionResults : DetectPII(ds)
  \/ \E m \in {"view", "manual-redact"} : SetMode(m)
  \/ \E r \in Drawings : HandleMouseUp(r)
  \/ \E i \in 1..MaxIds : HandleToggleDetection(i)
  \/ \E k \in 1..MaxIds : OnRemoveRegion(k)
  \/ OnClearAll
  \/ \E page \in Pages : GoToPage(page)
  \/ HandleExport

----------------------------------------------------------------------------
\* The detection engine (PIIDetectionEngineImpl) and the functions of the region
\* stores, each applied to an input.  Strings are sequences of characters with
\* 0-based indexes as in the code.

NoInput == [kind |-> "none"]
NoOutput == [kind |-> "none"]
NewDetector == [isInitialized |-> FALSE, useONNX |-> FALSE, onnxSession |-> FALSE]

Max(a, b) == IF a > b THEN a ELSE b
Min(a, b) == IF a < b THEN a ELSE b

\* All sequences over S of length lo to hi.
SeqsOf(S, lo, hi) == UNION {[1..n -> S] : n \in lo..hi}

\* String.prototype.indexOf(searchString, position): the first index at or after
\* position where searchString begins, -1 when there is none.
IndexOf(text, searchString, position) ==
  LET from == Min(Max(position, 0), Len(text))
      hits == {i \in from..(Len(text) - Len(searchString)) :
                 SubSeq(text, i + 1, i + Len(searchString)) = searchString}
  IN IF hits = {} THEN -1 ELSE Lowest(hits)

MoreThanHalf_OrHalf(overlapLength, wordLength) == 2 * overlapLength >= wordLength

\* overlapLength > wordLength * 0.5
MoreThanHalf(overlapLength, wordLength) == 2 * overlapLength > wordLength

\* findOverlappingWords, the loop from word k on with currentIndex; the result lists
\* the positions of the words pushed.
RECURSIVE OverlappingFrom(_, _, _, _, _, _)
OverlappingFrom(startIndex, endIndex, words, fullText, k, currentIndex) ==
  IF k > Len(words) THEN <<>>
  ELSE LET wordStart == IndexOf(fullText, words[k].text, currentIndex)
       IN IF wordStart = -1
          THEN OverlappingFrom(startIndex, endIndex, words, fullText, k + 1, currentIndex)
          ELSE LET wordEnd == wordStart + Len(words[k].text)
                   overlapStart == Max(wordStart, startIndex)
                   overlapEnd == Min(wordEnd, endIndex)
                   overlapLength == Max(0, overlapEnd - overlapStart)
                   wordLength == wordEnd - wordStart
                   pushed == IF MoreThanHalf(overlapLength, wordLength) THEN <<k>> ELSE <<>>
               IN IF wordStart >= endIndex
                  THEN pushed
                  ELSE pushed \o OverlappingFrom(startIndex, endIndex, words, fullText,
                                                 k + 1, wordEnd)

\* findOverlappingWords(startIndex, endIndex, words, fullText)
FindOverlappingWords(startIndex, endIndex, words, fullText) ==
  OverlappingFrom(startIndex, endIndex, words, fullText, 1, 0)

\* Inputs of findOverlappingWords: texts and words over two letters.
Letters == {"a", "b"}
OverlapTexts == SeqsOf(Letters, 1, MaxTextLen)
OverlapWords == {[text |-> t, confidence |-> 90] : t \in SeqsOf(Letters, 1, MaxWordLen)}
OverlapInputs ==
  {[kind |-> "overlap", text |-> t, words |-> ws, startIndex |-> s, endIndex |-> e] :
     t \in OverlapTexts, ws \in SeqsOf(OverlapWords, 0, MaxWords),
     s \in 0..(MaxTextLen - 1), e \in 1..MaxTextLen}

CallFindOverlappingWords ==
  /\ input.kind = "overlap"
  /\ input.startIndex < input.endIndex
  /\ input.endIndex <= Len(input.text)
  /\ output = NoOutput
  /\ output' = [kind |-> "overlap",
                words |-> FindOverlappingWords(input.startIndex, input.endIndex,
                                               input.words, input.text)]
  /\ UNCHANGED <<input, detector, selectedRegionId, renderVars, ocrVars, uiVars>>

\* isValidCreditCard --------------------------------------------------------

Digits == <<"0", "1", "2", "3", "4", "5", "6", "7", "8", "9">>
IsDigit(ch) == \E d \in 1..10 : Digits[d] = ch

\* Number.parseInt(ch, 10) of a digit
DigitValue(ch) == (CHOOSE d \in 1..10 : Digits[d] = ch) - 1

\* \s and - of /[\s-]/g, for the characters of the inputs
IsSpaceOrDash(ch) == ch \in {" ", "\t", "-"}

\* cardNumber.replace(/[\s-]/g, "")
StripSeparators(cardNumber) == SelectSeq(cardNumber, LAMBDA ch : ~IsSpaceOrDash(ch))

\* /^\d{13,19}$/.test(digits)
IsCardDigits(digits) ==
  /\ Len(digits) >= MinCardDigits
  /\ Len(digits) <= MaxCardDigits
  /\ \A i \in 1..Len(digits) : IsDigit(digits[i])

DoubleDigit_NoFold(digit) == digit * 2

\* digit *= 2; if (digit > 9) digit -= 9
DoubleDigit(digit) == IF digit * 2 > 9 THEN digit * 2 - 9 ELSE digit * 2

\* the loop of isValidCreditCard from index i down, with isEven and sum as they stand
RECURSIVE LuhnLoop(_, _, _, _)
LuhnLoop(digits, i, isEven, sum) ==
  IF i < 1 THEN sum
  ELSE LET digit == DigitValue(digits[i])
       IN LuhnLoop(digits, i - 1, ~isEven,
                   sum + (IF isEven THEN DoubleDigit(digit) ELSE digit))

\* isValidCreditCard(cardNumber)
IsValidCreditCard(cardNumber) ==
  LET digits == StripSeparators(cardNumber)
  IN IF ~IsCardDigits(digits) THEN FALSE
     ELSE LuhnLoop(digits, Len(digits), FALSE, 0) % 10 = 0

\* Card numbers: 4, then 1s, then two free digits; written plain, in groups of four
\* with a space, a dash or a tab between them, or with a letter at the end.
CardBody(n, d1, d2) ==
  [i \in 1..n |-> IF i = 1 THEN "4" ELSE IF i = n - 1 THEN Digits[d1 + 1]
                  ELSE IF i = n THEN Digits[d2 + 1] ELSE "1"]

RECURSIVE Grouped(_, _)
Grouped(digits, sep) ==
  IF Len(digits) <= 4 THEN digits
  ELSE SubSeq(digits, 1, 4) \o <<sep>> \o Grouped(SubSeq(digits, 5, Len(digits)), sep)

Written(digits, style) ==
  CASE style = "plain"  -> digits
    [] style = "space"  -> Grouped(digits, " ")
    [] style = "dash"   -> Grouped(digits, "-")
    [] style = "tab"    -> Grouped(digits, "\t")
    [] style = "letter" -> Append(digits, "x")

CardStyles == {"plain", "space", "dash", "tab", "letter"}

CardInputs ==
  {[kind |-> "card", cardNumber |-> Written(CardBody(n, d1, d2), style)] :
     n \in MinCardLen..MaxCardLen, d1 \in 0..9, d2 \in 0..9, style \in CardStyles}

CallIsValidCreditCard ==
  /\ input.kind = "card"
  /\ output = NoOutput
  /\ output' = [kind |-> "card", valid |-> IsValidCreditCard(input.cardNumber)]
  /\ UNCHANGED <<input, detector, selectedRegionId, renderVars, ocrVars, uiVars>>

\* detectPII ----------------------------------------------------------------
\* A document is a list of tokens written with one space between them.  Of the
\* patterns of PII_PATTERNS each token is matched by the one it names, entire, and
\* by no other; no match reaches across the space between two tokens.

\* "a@b.co"
TokEmail ==
  [pattern |-> "email",
   text |-> <<"a", "@", "b", ".", "c", "o">>]

\* "555-123-4567"
TokPhone ==
  [pattern |-> "phone",
   text |-> <<"5", "5", "5", "-", "1", "2", "3", "-", "4", "5", "6", "7">>]

\* "123-45-6789"
TokSsn ==
  [pattern |-> "ssn",
   text |-> <<"1", "2", "3", "-", "4", "5", "-", "6", "7", "8", "9">>]

\* "4111111111111111"
TokCard ==
  [pattern |-> "creditCard",
   text |-> <<"4", "1", "1", "1", "1", "1", "1", "1", "1", "1", "1", "1", "1", "1", "1", "1">>]

\* "4111 1111 1111 1112"
TokCardBad ==
  [pattern |-> "creditCard",
   text |-> <<"4", "1", "1", "1", " ", "1", "1", "1", "1", " ", "1", "1", "1", "1", " ", "1", "1", "1", "2">>]

\* "01/02/1990"
TokDate ==
  [pattern |-> "dateOfBirth",
   text |-> <<"0", "1", "/", "0", "2", "/", "1", "9", "9", "0">>]

\* "hello"
TokPlain ==
  [pattern |-> "none",
   text |-> <<"h", "e", "l", "l", "o">>]

Tokens == {TokEmail, TokPhone, TokSsn, TokCard, TokCardBad, TokDate, TokPlain}

\* Object.keys(PII_PATTERNS), in order
PatternKeys == <<"email", "phone", "ssn", "creditCard", "dateOfBirth">>

\* enum PIIType
PIITypes == {"name", "email", "phone", "ssn", "address", "date_of_birth", "credit_card", "other"}
PIITypeCreditCard == "credit_card"

\* The text of a document.
RECURSIVE JoinTokens(_)
JoinTokens(tokens) ==
  IF Len(tokens) = 0 THEN <<>>
  ELSE IF Len(tokens) = 1 THEN tokens[1].text
  ELSE tokens[1].text \o <<" ">> \o JoinTokens(Tail(tokens))

\* The index in the text at which token k begins.
RECURSIVE TokenStart(_, _)
TokenStart(tokens, k) ==
  IF k = 1 THEN 0 ELSE TokenStart(tokens, k - 1) + Len(tokens[k - 1].text) + 1

\* findMatches(text, pattern) for the pattern of key
FindMatches(tokens, key) ==
  LET hits == SelectSeq([k \in 1..Len(tokens) |-> k], LAMBDA k : tokens[k].pattern = key)
  IN [i \in 1..Len(hits) |->
        [text |-> tokens[hits[i]].text,
         startIndex |-> TokenStart(tokens, hits[i]),
         endIndex |-> TokenStart(tokens, hits[i]) + Len(tokens[hits[i]].text)]]

\* The words OCR reads in a piece of text: its runs of characters other than space,
\* the odd ones with confidence c and the even ones with confidence 100.
RECURSIVE SplitWords(_, _, _)
SplitWords(text, c, n) ==
  IF text = <<>> THEN <<>>
  ELSE LET gaps == {i \in 1..Len(text) : text[i] = " "}
           stop == IF gaps = {} THEN Len(text) + 1 ELSE Lowest(gaps)
           word == [text |-> SubSeq(text, 1, stop - 1),
                    confidence |-> IF n % 2 = 1 THEN c ELSE 100]
       IN <<word>> \o SplitWords(SubSeq(text, stop + 1, Len(text)), c, n + 1)

\* The word list of a document: reads[k] is the confidence with which token k was
\* read, or -1 when OCR gave no word for it.
RECURSIVE WordsOf(_, _)
WordsOf(tokens, reads) ==
  IF Len(tokens) = 0 THEN <<>>
  ELSE (IF reads[1] = -1 THEN <<>> ELSE SplitWords(tokens[1].text, reads[1], 1))
         \o WordsOf(Tail(tokens), Tail(reads))

\* baseConfidence[type] || 0.7, in hundredths
BaseConfidence_Flat(type) == 70

BaseConfidence(type) ==
  CASE type = "email"       -> 95
    [] type = "ssn"         -> 98
    [] type = "creditCard"  -> 90
    [] type = "phone"       -> 85
    [] type = "dateOfBirth" -> 75
    [] OTHER                -> 70

RECURSIVE SumConfidence(_)
SumConfidence(words) ==
  IF words = <<>> THEN 0 ELSE Head(words).confidence + SumConfidence(Tail(words))

\* calculateConfidence(type, matchText, words), as the fraction num / den
CalculateConfidence(type, matchText, words) ==
  LET base == [num |-> BaseConfidence(type), den |-> 100]
      blended == IF Len(words) > 0
                 THEN [num |-> BaseConfidence(type) * 7 * Len(words) + 3 * SumConfidence(words),
                       den |-> 1000 * Len(words)]
                 ELSE base
      checked == IF type = PIITypeCreditCard /\ ~IsValidCreditCard(matchText)
                 THEN [num |-> blended.num, den |-> blended.den * 2]
                 ELSE blended
  IN IF checked.num > checked.den THEN [num |-> 1, den |-> 1] ELSE checked

IsLocalized_Always(matchedWords) == TRUE

\* mapMatchToWords: a match with no word is given up
IsLocalized(matchedWords) == Len(matchedWords) # 0

\* mapMatchToWords(matchText, startIndex, endIndex, type, words, fullText): the
\* detection in a list, the empty list for null
MapMatchToWords(matchText, startIndex, endIndex, type, words, fullText) ==
  LET at == FindOverlappingWords(startIndex, endIndex, words, fullText)
      matchedWords == [i \in 1..Len(at) |-> words[at[i]]]
  IN IF ~IsLocalized(matchedWords) THEN <<>>
     ELSE << [text |-> matchText, type |-> type,
              confidence |-> CalculateConfidence(type, matchText, matchedWords),
              startIndex |-> startIndex, endIndex |-> endIndex,
              words |-> matchedWords] >>

\* detectWithRegex, the matches of one pattern from match i on
RECURSIVE DetectMatches(_, _, _, _, _)
DetectMatches(matches, i, type, words, fullText) ==
  IF i > Len(matches) THEN <<>>
  ELSE MapMatchToWords(matches[i].text, matches[i].startIndex, matches[i].endIndex,
                       type, words, fullText)
         \o DetectMatches(matches, i + 1, type, words, fullText)

\* detectWithRegex, the patterns from the p-th on
RECURSIVE DetectPatterns(_, _, _)
DetectPatterns(tokens, words, p) ==
  IF p > Len(PatternKeys) THEN <<>>
  ELSE DetectMatches(FindMatches(tokens, PatternKeys[p]), 1, PatternKeys[p], words,
                     JoinTokens(tokens))
         \o DetectPatterns(tokens, words, p + 1)

\* detectWithRegex(text, words)
DetectWithRegex(tokens, words) == DetectPatterns(tokens, words, 1)

\* detectionsOverlap(det1, det2)
DetectionsOverlap_Touching(det1, det2) ==
  det1.startIndex <= det2.endIndex /\ det1.endIndex >= det2.startIndex

DetectionsOverlap(det1, det2) ==
  det1.startIndex < det2.endIndex /\ det1.endIndex > det2.startIndex

\* mergeDetections(onnxDetections, regexDetections)
MergeDetections(onnxDetections, regexDetections) ==
  onnxDetections
    \o SelectSeq(regexDetections,
                 LAMBDA r : ~\E i \in 1..Len(onnxDetections) :
                               DetectionsOverlap(onnxDetections[i], r))

\* initialize(modelPath); loads tells whether InferenceSession.create succeeds
InitializeDetector(d, modelPath, loads) ==
  IF modelPath = ""
  THEN [d EXCEPT !.isInitialized = TRUE, !.useONNX = FALSE]
  ELSE IF loads
  THEN [d EXCEPT !.isInitialized = TRUE, !.useONNX = TRUE, !.onnxSession = TRUE]
  ELSE [d EXCEPT !.isInitialized = TRUE, !.useONNX = FALSE, !.onnxSession = FALSE]

\* What an exception of detectWithONNX leaves in detections.
Thrown == <<"thrown">>

\* detectWithONNX(text, words): no detection is decoded from the predictions yet;
\* it throws without a session and when inference throws
DetectWithONNX(d, throws) == IF ~d.onnxSession \/ throws THEN Thrown ELSE <<>>

OnnxStage_Uncaught(d, throws) ==
  IF d.useONNX /\ d.onnxSession THEN DetectWithONNX(d, throws) ELSE <<>>

\* detectPII, the try around detectWithONNX: detections after it
OnnxStage(d, throws) ==
  IF d.useONNX /\ d.onnxSession
  THEN IF DetectWithONNX(d, throws) = Thrown THEN <<>> ELSE DetectWithONNX(d, throws)
  ELSE <<>>

\* detectPII(text, words, modelPath) on detector d: what it returns, or that it threw
DetectPIIResult(d, tokens, words, throws) ==
  IF OnnxStage(d, throws) = Thrown
  THEN [kind |-> "detect", failed |-> TRUE, detections |-> <<>>]
  ELSE [kind |-> "detect", failed |-> FALSE,
        detections |-> MergeDetections(OnnxStage(d, throws), DetectWithRegex(tokens, words))]

WordReads == {-1, 0, 60, 100}

DetectInputs ==
  {[kind |-> "detect", tokens |-> ts, reads |-> rs, modelPath |-> mp, loads |-> l, throws |-> t] :
     ts \in SeqsOf(Tokens, 1, MaxTokens), rs \in SeqsOf(WordReads, 1, MaxTokens),
     mp \in {"", "model.onnx"}, l \in BOOLEAN, t \in BOOLEAN}

\* detectPII(text, words, modelPath) on a new engine
CallDetectPII ==
  /\ input.kind = "detect"
  /\ Len(input.reads) = Len(input.tokens)
  /\ input.modelPath = "" => (input.loads /\ ~input.throws)
  /\ output = NoOutput
  /\ LET d == IF detector.isInitialized THEN detector
              ELSE InitializeDetector(detector, input.modelPath, input.loads)
     IN /\ detector' = d
        /\ output' = DetectPIIResult(d, input.tokens, WordsOf(input.tokens, input.reads),
                                     input.throws)
  /\ UNCHANGED <<input, selectedRegionId, renderVars, ocrVars, uiVars>>

\* Inputs of mergeDetections: detections by their character ranges.
MergeRanges ==
  {[startIndex |-> s, endIndex |-> e] : s \in 0..(MaxRangeEnd - 1), e \in 1..MaxRangeEnd}

MergeInputs ==
  {[kind |-> "merge",
    onnxDetections |-> [i \in 1..Len(a) |->
                          [type |-> "name", startIndex |-> a[i].startIndex, endIndex |-> a[i].endIndex]],
    regexDetections |-> [i \in 1..Len(b) |->
                          [type |-> "email", startIndex |-> b[i].startIndex, endIndex |-> b[i].endIndex]]] :
     a \in SeqsOf({r \in MergeRanges : r.startIndex < r.endIndex}, 0, MaxMerged),
     b \in SeqsOf({r \in MergeRanges : r.startIndex < r.endIndex}, 0, MaxMerged)}

CallMergeDetections ==
  /\ input.kind = "merge"
  /\ output = NoOutput
  /\ output' = [kind |-> "merge",
                detections |-> MergeDetections(input.onnxDetections, input.regexDetections)]
  /\ UNCHANGED <<input, detector, selectedRegionId, renderVars, ocrVars, uiVars>>

\* Inputs of addAutoDetectedRegions: a detection whose words OCR placed at the
\* given tops, one after another from left to right, added to an empty page or
\* to a page that holds a region, alone or before a second detection.
LineWord(i, y0) == BBox(10 * (i - 1), y0, 10 * (i - 1) + 8, y0 + 7)

WordTops == {0, 4, 5, 6, 9, 10}

StoredRegion ==
  [id |-> 0, x |-> 1, y |-> 1, width |-> 5, height |-> 5, piiType |-> "other",
   confidence |-> Confidence(100, 1), isManual |-> FALSE, origin |-> 1]

PriorStores == {EmptyMap, [p \in Pages |-> <<StoredRegion>>]}

RegionInputs ==
  {[kind |-> "regions", pageNumber |-> 1, prior |-> pr,
    detections |-> <<[type |-> t, confidence |-> Confidence(78, 100), page |-> 1,
                      words |-> [i \in 1..Len(ys) |-> LineWord(i, ys[i])]]>> \o more] :
     ys \in SeqsOf(WordTops, 0, MaxLineWords), t \in {"email", "creditCard"},
     pr \in PriorStores, more \in {<<>>, FoundOn(1, <<DetPhone>>)}}

CallAddAutoDetectedRegions ==
  /\ input.kind = "regions"
  /\ output = NoOutput
  /\ output' = [kind |-> "regions",
                redactions |-> AddAutoDetectedRegions(input.prior, input.pageNumber,
                                                      input.detections)]
  /\ UNCHANGED <<input, detector, selectedRegionId, renderVars, ocrVars, uiVars>>

\* { ...region, id, isManual: true }: the fields of region as they are, with the id
\* and the mark of a manual region; origin is the page it is stored under
Spread(region, id, page) ==
  [f \in DOMAIN region \cup {"id", "isManual", "origin"} |->
     CASE f = "id" -> id
       [] f = "isManual" -> TRUE
       [] f = "origin" -> page
       [] OTHER -> region[f]]

\* useRedactions.addManualRegion(pageNumber, region)
AddManualRegion(map, pageNumber, region) ==
  MapSet(map, pageNumber,
     Append(GetRegionsForPage(map, pageNumber),
            Spread(region, nextId + 1, pageNumber)))

\* RedactionManager.addManualRegion(region) on the manager's current page; an
\* id of 0 stands for a region that has none
ManagerAddManualRegion(redactionsByPage, managerPage, region) ==
  MapSet(redactionsByPage, managerPage,
     Append(GetRegionsForPage(redactionsByPage, managerPage),
            Spread(region, IF region.id # 0 THEN region.id ELSE nextId + 1, managerPage)))

\* The render effect and handleExport of IndexPage: the manager is cleared and
\* the regions of the page are passed to its addManualRegion one by one.
RECURSIVE ManagerCopy(_, _, _)
ManagerCopy(redactionsByPage, managerPage, rs) ==
  IF rs = <<>> THEN redactionsByPage
  ELSE ManagerCopy(ManagerAddManualRegion(redactionsByPage, managerPage, Head(rs)),
                   managerPage, Tail(rs))

\* What the RedactionManager holds after the render effect for page
ManagerRegions(map, page) ==
  GetRegionsForPage(ManagerCopy(EmptyMap, 1, GetRegionsForPage(map, page)), 1)

\* Inputs of addManualRegion: regions of every width and height around the
\* least size, for an empty page or a page that holds a region.
ManualSizes == {MinManualSize - 1, MinManualSize, 2 * MinManualSize}

ManualInputs ==
  {[kind |-> "manual", pageNumber |-> 1, prior |-> pr,
    region |-> [id |-> 0, x |-> 0, y |-> 0, width |-> w, height |-> h,
                piiType |-> "other", confidence |-> Confidence(100, 1)]] :
     w \in ManualSizes, h \in ManualSizes, pr \in PriorStores}

CallAddManualRegion ==
  /\ input.kind = "manual"
  /\ output = NoOutput
  /\ output' = [kind |-> "manual", path |-> "useRedactions",
                redactions |-> AddManualRegion(input.prior, input.pageNumber, input.region)]
  /\ UNCHANGED <<input, detector, selectedRegionId, renderVars, ocrVars, uiVars>>

CallManagerAddManualRegion ==
  /\ input.kind = "manual"
  /\ output = NoOutput
  /\ output' = [kind |-> "manual", path |-> "RedactionManager",
                redactions |-> ManagerAddManualRegion(input.prior, input.pageNumber,
                                                      input.region)]
  /\ UNCHANGED <<input, detector, selectedRegionId, renderVars, ocrVars, uiVars>>

\* Inputs of applyRedactions: a canvas as a render left it, the regions the manager
\* holds, and the zoom and pan of the controller at the time.
CompositeRegions == {Rect(0, 0, 6, 5), Rect(3, 2, 6, 5), Rect(2, 2, 3, 3)}

CompositeInputs ==
  {[kind |-> "composite", image |-> image, regions |-> rs, zoom |-> zoom, panOffset |-> pan] :
     image \in {CleanImage, [black |-> PixelsOf(Rect(1, 1, 2, 2)), overlay |-> PixelsOf(Rect(0, 0, 3, 3))]},
     rs \in SeqsOf(CompositeRegions, 0, MaxComposited),
     zoom \in {1, 2}, pan \in {0, 1}}

\* applyRedactions(canvas), and applyRedactions(canvas) again on its result
CallApplyRedactions ==
  /\ input.kind = "composite"
  /\ output = NoOutput
  /\ output' = [kind |-> "composite",
                once |-> ApplyRedactions(input.image, input.regions),
                twice |-> ApplyRedactions(ApplyRedactions(input.image, input.regions),
                                          input.regions)]
  /\ UNCHANGED <<input, detector, selectedRegionId, renderVars, ocrVars, uiVars>>

\* CanvasController.pageCache as the list of its keys, in the order a Map keeps
\* them: the order in which the keys were first set.
PageCacheSet(keys, pageNumber) ==
  IF \E k \in 1..Len(keys) : keys[k] = pageNumber THEN keys ELSE Append(keys, pageNumber)

\* cachePage(pageNumber); ok is whether getImageData gave the image
CachePageKeys(keys, pageNumber, ok) ==
  IF ~ok THEN <<>>
  ELSE LET set == PageCacheSet(keys, pageNumber)
           entriesToRemove == Len(set) - MaxCachedPages
       IN IF Len(set) > MaxCachedPages
          THEN SubSeq(set, entriesToRemove + 1, Len(set))
          ELSE set

\* clearPageCache(pageNumber)
ClearPageCache(keys, pageNumber) == SelectSeq(keys, LAMBDA k : k # pageNumber)

\* clearDistantPages(currentPage, keepRange)
ClearDistantPages(keys, page, keepRange) ==
  SelectSeq(keys, LAMBDA k : Max(1, page - keepRange) <= k /\ k <= page + keepRange)

\* One call on the page cache.
CacheAfter(keys, c) ==
  CASE c.op = "cachePage" -> CachePageKeys(keys, c.page, TRUE)
    [] c.op = "cachePageFails" -> CachePageKeys(keys, c.page, FALSE)
    [] c.op = "clearPageCache" -> ClearPageCache(keys, c.page)
    [] c.op = "clearPageCacheAll" -> <<>>
    [] c.op = "clearDistantPages" -> ClearDistantPages(keys, c.page, KeepRange)

\* The cache after each call of a list of calls
RECURSIVE CacheStates(_, _)
CacheStates(keys, calls) ==
  IF calls = <<>> THEN <<>>
  ELSE <<CacheAfter(keys, Head(calls))>>
         \o CacheStates(CacheAfter(keys, Head(calls)), Tail(calls))

\* Inputs: a cache that pages 1, 2, ... were put into in turn, and calls on it.
CacheCalls ==
  {[op |-> "cachePage", page |-> p] : p \in {1, 2, MaxCachedPages + 1, MaxCachedPages + 2}}
    \cup {[op |-> "cachePageFails", page |-> 1], [op |-> "clearPageCache", page |-> 1],
          [op |-> "clearPageCacheAll", page |-> 0]}
    \cup {[op |-> "clearDistantPages", page |-> p] : p \in {1, MaxCachedPages + 1}}

CacheInputs ==
  {[kind |-> "cache", pageCache |-> [k \in 1..n |-> k], calls |-> calls] :
     n \in {0, MaxCachedPages - 1, MaxCachedPages}, calls \in SeqsOf(CacheCalls, 1, MaxCacheCalls)}

CallCachePages ==
  /\ input.kind = "cache"
  /\ output = NoOutput
  /\ output' = [kind |-> "cache", states |-> CacheStates(input.pageCache, input.calls)]
  /\ UNCHANGED <<input, detector, selectedRegionId, renderVars, ocrVars, uiVars>>

Inputs ==
  OverlapInputs \cup CardInputs \cup DetectInputs \cup MergeInputs
    \cup RegionInputs \cup ManualInputs \cup CompositeInputs
    \cup CacheInputs

NextDetect ==
  \/ CallFindOverlappingWords
  \/ CallIsValidCreditCard
  \/ CallDetectPII
  \/ CallMergeDetections
  \/ CallAddAutoDetectedRegions
  \/ CallAddManualRegion
  \/ CallManagerAddManualRegion
  \/ CallApplyRedactions
  \/ CallCachePages

vars == <<ocrVars, uiVars, fnVars>>

InitProgram ==
  /\ worker = 0
  /\ isInitialized = FALSE
  /\ requestCounter = 0
  /\ pendingRequests = [id \in ReqIds |-> 0]
  /\ reqTimer = {}
  /\ progressCallback = NoCallback
  /\ initPromise = [a \in Inits |-> "unused"]
  /\ initTimer = {}
  /\ call = [c \in Calls |-> NoCall]
  /\ wk = [w \in Inits |-> "none"]
  /\ engineReady = [w \in Inits |-> FALSE]
  /\ inbox = [w \in Inits |-> <<>>]
  /\ outbox = [w \in Inits |-> <<>>]
  /\ isProcessing = FALSE
  /\ manualOnlyMode = FALSE
  /\ mode = "view"
  /\ errorType = [c \in Calls |-> "none"]
  /\ InitUI
  /\ InitRender

Init ==
  /\ InitProgram
  /\ input = NoInput
  /\ output = NoOutput
  /\ detector = NewDetector
  /\ selectedRegionId = 0

\* A call of one of the functions on one of its inputs.
InitDetect ==
  /\ InitProgram
  /\ input \in Inputs
  /\ output = NoOutput
  /\ detector = NewDetector
  /\ selectedRegionId = 0


----------------------------------------------------------------------------
\* OCREngineWorker, on the main thread.

\* initialize() past its isInitialized check, for run a; cb is this.progressCallback
\* as the run finds it.  The Worker it makes carries the run's number.
StartInit(a, cb) ==
  /\ worker' = a
  /\ wk' = [wk EXCEPT ![a] = "running"]
  /\ inbox' = [inbox EXCEPT ![a] = <<InitMsg>>]
  /\ initTimer' = initTimer \cup {a}
  /\ progressCallback' = [wraps |-> <<a>> \o cb.wraps, base |-> cb.base]
  /\ initPromise' = [initPromise EXCEPT ![a] = "pending"]
  /\ UNCHANGED <<engineReady, outbox>>

\* initialize() when `new Worker` throws: the catch rejects, nothing is installed.
FailInit(a, cb) ==
  /\ initPromise' = [initPromise EXCEPT ![a] = "createFailed"]
  /\ progressCallback' = cb
  /\ UNCHANGED <<worker, wk, inbox, initTimer, engineReady, outbox>>

\* A direct call of initialize().  With isInitialized set it returns at once and
\* changes nothing.
Initialize(createOk) ==
  /\ ~isInitialized
  /\ FreeInits # {}
  /\ LET a == Lowest(FreeInits)
     IN IF createOk THEN StartInit(a, progressCallback) ELSE FailInit(a, progressCallback)
  /\ UNCHANGED <<isInitialized, requestCounter, pendingRequests, reqTimer, call, sessionVars>>
  /\ UNCHANGED uiVars
  /\ UNCHANGED fnVars

\* setProgressCallback(callback)
SetProgressCallback(cb) ==
  /\ progressCallback' = [wraps |-> <<>>, base |-> cb]
  /\ UNCHANGED <<worker, isInitialized, requestCounter, pendingRequests, reqTimer,
                 initPromise, initTimer, call, workerSide, sessionVars>>
  /\ UNCHANGED uiVars
  /\ UNCHANGED fnVars

\* extractText past its two checks: the calls of cs, in order, each take the next
\* request id, arm a timer, enter pendingRequests and are posted to this.worker.
PostedCalls(cs) ==
  [c \in Calls |->
     IF \E i \in 1..Len(cs) : cs[i] = c
     THEN [call[c] EXCEPT !.st = "posted",
                          !.req = requestCounter + (CHOOSE i \in 1..Len(cs) : cs[i] = c)]
     ELSE call[c]]

PostedPending(cs) ==
  [id \in ReqIds |->
     IF id - requestCounter \in 1..Len(cs) THEN cs[id - requestCounter]
     ELSE pendingRequests[id]]

PostedTimers_Unarmed(cs) == reqTimer

PostedTimers(cs) == reqTimer \cup {requestCounter + i : i \in 1..Len(cs)}

PostedInbox(cs) ==
  [inbox EXCEPT ![worker] =
     @ \o [i \in 1..Len(cs) |-> ExtractMsg(requestCounter + i)]]

\* extractText(imageData); as a detection run, handleDetectPII up to its await:
\* startProcessing, setProgressCallback, extractText.
ExtractText(isDetect, piiOk, createOk) ==
  /\ FreeCalls # {}
  /\ isDetect => ~isProcessing
  /\ LET c  == Lowest(FreeCalls)
         cb == IF isDetect THEN [wraps |-> <<>>, base |-> "detect"] ELSE progressCallback
         me == [NoCall EXCEPT !.detect = isDetect, !.piiOk = (piiOk \/ ~isDetect)]
     IN
     IF ~isInitialized
     THEN /\ FreeInits # {}
          /\ LET a  == Lowest(FreeInits)
                 nc == [call EXCEPT ![c] =
                          IF createOk
                          THEN [me EXCEPT !.st = "waitInit", !.att = a]
                          ELSE [me EXCEPT !.st = "rejected", !.att = a, !.err = "createFailed"]]
             IN /\ IF createOk THEN StartInit(a, cb) ELSE FailInit(a, cb)
                /\ call' = nc
                /\ Session(nc, isDetect)
          /\ UNCHANGED <<isInitialized, requestCounter, pendingRequests, reqTimer>>
     ELSE IF worker = 0
     THEN /\ LET nc == [call EXCEPT ![c] = [me EXCEPT !.st = "rejected", !.err = "workerNull"]]
             IN call' = nc /\ Session(nc, isDetect)
          /\ progressCallback' = cb
          /\ UNCHANGED <<worker, isInitialized, requestCounter, pendingRequests, reqTimer,
                         initPromise, initTimer, workerSide>>
     ELSE /\ LET nc == [call EXCEPT ![c] = [me EXCEPT !.st = "posted", !.req = requestCounter + 1]]
             IN call' = nc /\ Session(nc, isDetect)
          /\ requestCounter' = requestCounter + 1
          /\ pendingRequests' = [pendingRequests EXCEPT ![requestCounter + 1] = c]
          /\ reqTimer' = reqTimer \cup {requestCounter + 1}
          /\ inbox' = [inbox EXCEPT ![worker] = Append(@, ExtractMsg(requestCounter + 1))]
          /\ progressCallback' = cb
          /\ UNCHANGED <<worker, isInitialized, initPromise, initTimer, wk, engineReady, outbox>>
  /\ UNCHANGED uiVars
  /\ UNCHANGED fnVars

\* The extraction timer of request id fires.
TimeoutCleanup_Kept(id) == pendingRequests

TimeoutCleanup(id) == [pendingRequests EXCEPT ![id] = 0]

RequestTimeoutFires(id) ==
  /\ id \in reqTimer
  /\ reqTimer' = reqTimer \ {id}
  /\ pendingRequests' = TimeoutCleanup(id)
  /\ LET nc == [c \in Calls |->
                  IF call[c].req = id THEN RejectCall(call, c, "opTimeout")[c] ELSE call[c]]
     IN call' = nc /\ Session(nc, FALSE)
  /\ UNCHANGED <<worker, isInitialized, requestCounter, progressCallback,
                 initPromise, initTimer, workerSide>>
  /\ UNCHANGED uiVars
  /\ UNCHANGED fnVars

\* reject(...) of initialize() run a: the run's promise, and the extractText that awaits it.
RejectInit(a, e) ==
  /\ initPromise' = [initPromise EXCEPT ![a] = IF @ = "pending" THEN e ELSE @]
  /\ LET nc == [c \in Calls |->
                  IF call[c].st = "waitInit" /\ call[c].att = a /\ initPromise[a] = "pending"
                  THEN RejectCall(call, c, e)[c] ELSE call[c]]
     IN call' = nc /\ Session(nc, FALSE)

\* The initTimeout timer of run a fires.
InitTimeoutFires(a) ==
  /\ a \in initTimer
  /\ initTimer' = initTimer \ {a}
  /\ RejectInit(a, "initTimeout")
  /\ UNCHANGED <<worker, isInitialized, requestCounter, pendingRequests, reqTimer,
                 progressCallback, workerSide>>
  /\ UNCHANGED uiVars
  /\ UNCHANGED fnVars

\* worker.onerror of Worker w, set by the run that made it.  After the run's promise
\* has settled its reject changes nothing.
WorkerErrorEvent(w) ==
  /\ wk[w] = "running"
  /\ initPromise[w] = "pending"
  /\ RejectInit(w, "workerError")
  /\ UNCHANGED <<worker, isInitialized, requestCounter, pendingRequests, reqTimer,
                 progressCallback, initTimer, workerSide>>
  /\ UNCHANGED uiVars
  /\ UNCHANGED fnVars

\* terminate()
Terminate ==
  /\ worker # 0
  /\ LET nc == [c \in Calls |->
                  IF \E id \in ReqIds : pendingRequests[id] = c
                  THEN RejectCall(call, c, "terminated")[c] ELSE call[c]]
     IN call' = nc /\ Session(nc, FALSE)
  /\ reqTimer' = reqTimer \ {id \in ReqIds : pendingRequests[id] # 0}
  /\ pendingRequests' = [id \in ReqIds |-> 0]
  /\ wk' = [wk EXCEPT ![worker] = "terminated"]
  /\ inbox' = [inbox EXCEPT ![worker] = <<>>]
  /\ outbox' = [outbox EXCEPT ![worker] = <<>>]
  /\ worker' = 0
  /\ isInitialized' = FALSE
  /\ UNCHANGED <<requestCounter, progressCallback, initPromise, initTimer, engineReady>>
  /\ UNCHANGED uiVars
  /\ UNCHANGED fnVars

Range(s) == {s[i] : i \in 1..Len(s)}

\* The test of the wrapper that initialize() installs around the progress callback.
IsInitDone(m) == m.progress = 100 /\ m.status = "OCR engine initialized"

\* The initialize() runs whose wrapper is reached when callback cb is invoked with m:
\* each wrapper calls the callback it wrapped, then makes its own test.
WrappersFired(cb, m) == IF IsInitDone(m) THEN Range(cb.wraps) ELSE {}

\* The extractText calls whose awaited initialize() is resolved by the wrappers of
\* cb, in the order their promises resolve (the innermost wrapper runs first).
ResumedCalls(cb) ==
  LET n == Len(cb.wraps)
      order == [i \in 1..n |-> cb.wraps[n + 1 - i]]
      Waiting(a) == {c \in Calls : call[c].st = "waitInit" /\ call[c].att = a}
      live == SelectSeq(order, LAMBDA a : initPromise[a] = "pending" /\ Waiting(a) # {})
  IN [i \in 1..Len(live) |-> CHOOSE c \in Waiting(live[i]) : TRUE]

\* handleWorkerMessage, case "success"
OnSuccess(m) ==
  IF m.requestId # 0 /\ pendingRequests[m.requestId] # 0
  THEN /\ reqTimer' = reqTimer \ {m.requestId}
       /\ pendingRequests' = [pendingRequests EXCEPT ![m.requestId] = 0]
       /\ LET nc == ResolveCall(call, pendingRequests[m.requestId])
          IN call' = nc /\ Session(nc, FALSE)
       /\ UNCHANGED <<worker, isInitialized, requestCounter, progressCallback,
                      initPromise, initTimer, inbox>>
  ELSE UNCHANGED <<worker, isInitialized, requestCounter, pendingRequests, reqTimer,
                   progressCallback, initPromise, initTimer, call, inbox, sessionVars>>

\* handleWorkerMessage, case "error": an empty requestId is falsy
OnError(m) ==
  IF m.requestId # 0 /\ pendingRequests[m.requestId] # 0
  THEN /\ reqTimer' = reqTimer \ {m.requestId}
       /\ pendingRequests' = [pendingRequests EXCEPT ![m.requestId] = 0]
       /\ LET nc == RejectCall(call, pendingRequests[m.requestId], m.error)
          IN call' = nc /\ Session(nc, FALSE)
       /\ UNCHANGED <<worker, isInitialized, requestCounter, progressCallback,
                      initPromise, initTimer, inbox>>
  ELSE UNCHANGED <<worker, isInitialized, requestCounter, pendingRequests, reqTimer,
                   progressCallback, initPromise, initTimer, call, inbox, sessionVars>>

\* handleWorkerMessage, case "progress": this.progressCallback(progress, status).
\* A plain callback only shows the progress.  The wrappers of initialize() clear their
\* timer, set isInitialized, put back the callback they wrapped and resolve; the
\* extractText calls that awaited them go on in the same turn of the event loop.
OnProgress(m) ==
  IF WrappersFired(progressCallback, m) # {}
  THEN LET fired == WrappersFired(progressCallback, m)
           cs    == ResumedCalls(progressCallback)
       IN /\ initTimer' = initTimer \ fired
          /\ isInitialized' = TRUE
          /\ progressCallback' = [progressCallback EXCEPT !.wraps = Tail(@)]
          /\ initPromise' = [a \in Inits |->
                               IF a \in fired /\ initPromise[a] = "pending"
                               THEN "resolved" ELSE initPromise[a]]
          /\ IF worker = 0
             THEN /\ LET nc == [c \in Calls |->
                                  IF c \in Range(cs)
                                  THEN RejectCall(call, c, "workerNull")[c] ELSE call[c]]
                     IN call' = nc /\ Session(nc, FALSE)
                  /\ UNCHANGED <<requestCounter, pendingRequests, reqTimer, inbox>>
             ELSE /\ LET nc == PostedCalls(cs)
                     IN call' = nc /\ Session(nc, FALSE)
                  /\ requestCounter' = requestCounter + Len(cs)
                  /\ pendingRequests' = PostedPending(cs)
                  /\ reqTimer' = PostedTimers(cs)
                  /\ inbox' = PostedInbox(cs)
          /\ UNCHANGED worker
  ELSE UNCHANGED <<worker, isInitialized, requestCounter, pendingRequests, reqTimer,
                   progressCallback, initPromise, initTimer, call, inbox, sessionVars>>

\* worker.onmessage of Worker w: handleWorkerMessage(event.data)
HandleWorkerMessage(w) ==
  /\ wk[w] = "running"
  /\ outbox[w] # <<>>
  /\ outbox' = [outbox EXCEPT ![w] = Tail(@)]
  /\ LET m == Head(outbox[w])
     IN CASE m.type = "success"  -> OnSuccess(m)
          [] m.type = "error"    -> OnError(m)
          [] m.type = "progress" -> OnProgress(m)
  /\ UNCHANGED <<wk, engineReady>>
  /\ UNCHANGED uiVars
  /\ UNCHANGED fnVars

----------------------------------------------------------------------------
\* ocr.worker.ts, inside Worker w.  A handler runs from its message to its answer.
\* Of the progress reports only the two with progress 100 that initialization ends
\* with are kept: handleWorkerMessage treats every other report like "OCR engine ready".

mainSide == <<worker, isInitialized, requestCounter, pendingRequests, reqTimer,
              progressCallback, initPromise, initTimer, call, sessionVars>>

\* The requestId of the error answer: the message's own, or "" when it has none.
ErrorResponseId(msg) == IF msg.type = "extractText" THEN msg.requestId ELSE 0

\* case "init": ocrEngine.initialize(), then the "OCR engine initialized" report;
\* createWorker may throw.
WorkerInit(w, ok) ==
  /\ wk[w] = "running"
  /\ inbox[w] # <<>>
  /\ Head(inbox[w]).type = "init"
  /\ inbox' = [inbox EXCEPT ![w] = Tail(@)]
  /\ IF engineReady[w]
     THEN /\ outbox' = [outbox EXCEPT ![w] = Append(@, PInitialized)]
          /\ UNCHANGED engineReady
     ELSE IF ok
     THEN /\ outbox' = [outbox EXCEPT ![w] = @ \o <<PEngineReady, PInitialized>>]
          /\ engineReady' = [engineReady EXCEPT ![w] = TRUE]
     ELSE /\ outbox' = [outbox EXCEPT ![w] =
                          Append(@, ErrorMsg(ErrorResponseId(Head(inbox[w])), "engineInit"))]
          /\ UNCHANGED engineReady
  /\ UNCHANGED <<wk, mainSide>>
  /\ UNCHANGED uiVars
  /\ UNCHANGED fnVars

\* case "extractText": ocrEngine.extractText(imageData), which initializes the engine
\* first when it is not ready; outcome is what recognition does.
WorkerExtract(w, outcome) ==
  /\ wk[w] = "running"
  /\ inbox[w] # <<>>
  /\ Head(inbox[w]).type = "extractText"
  /\ outcome = "engineInit" => ~engineReady[w]
  /\ inbox' = [inbox EXCEPT ![w] = Tail(@)]
  /\ LET msg == Head(inbox[w])
     IN IF outcome = "ok"
        THEN outbox' = [outbox EXCEPT ![w] = Append(@, SuccessMsg(msg.requestId))]
        ELSE outbox' = [outbox EXCEPT ![w] = Append(@, ErrorMsg(ErrorResponseId(msg), outcome))]
  /\ engineReady' = [engineReady EXCEPT ![w] = @ \/ outcome # "engineInit"]
  /\ UNCHANGED <<wk, mainSide>>
  /\ UNCHANGED uiVars
  /\ UNCHANGED fnVars

ExtractOutcomes == {"ok", "invalid", "context", "engineInit"}

Next ==
  \/ \E ok \in BOOLEAN : Initialize(ok)
  \/ SetProgressCallback("user")
  \/ \E d, p, ok \in BOOLEAN : ExtractText(d, p, ok)
  \/ \E id \in ReqIds : RequestTimeoutFires(id)
  \/ \E a \in Inits : InitTimeoutFires(a)
  \/ \E w \in Inits : WorkerErrorEvent(w)
  \/ Terminate
  \/ \E w \in Inits : HandleWorkerMessage(w)
  \/ \E w \in Inits : WorkerInit(w, TRUE) \/ WorkerInit(w, FALSE)
  \/ \E w \in Inits, o \in ExtractOutcomes : WorkerExtract(w, o)

Spec == Init /\ [][Next]_vars

SpecUI == Init /\ [][NextUI]_vars

SpecDetect == InitDetect /\ [][NextDetect]_vars

----------------------------------------------------------------------------
\* useRedactions as its callers see it: any of its operations, on any page, in
\* any order.  `output` keeps the last call with the store and the selection it found.

NoSelection == 0

\* What addAutoDetectedRegions is given: nothing, a detection without words, a
\* detection of one word and a detection of two lines.
DetNoWords == [type |-> "email", confidence |-> Confidence(95, 100), words |-> <<>>]
HookDetections == {<<>>, <<DetNoWords>>, <<DetEmail>>, <<DetPhone>>}

\* What addManualRegion is given.
HookRegions == {[x |-> 2, y |-> 2, width |-> 5, height |-> 5]}

CallOf(kind, pageNumber, regionId) ==
  [kind |-> kind, pageNumber |-> pageNumber, regionId |-> regionId,
   prior |-> redactions, selected |-> selectedRegionId]

HookUnchanged ==
  UNCHANGED <<input, detector, renderVars, ocrVars, currentPage, piiDetections, enabledDetections,
              regions, canvas, pageCache, exported, mode>>

\* addAutoDetectedRegions(pageNumber, detections)
HookAddAutoDetectedRegions(pageNumber, detections) ==
  /\ nextId + Len(NewRegions(FoundOn(pageNumber, detections), 1)) <= MaxIds
  /\ redactions' = AddAutoDetectedRegions(redactions, pageNumber,
                                          FoundOn(pageNumber, detections))
  /\ nextId' = nextId + Len(NewRegions(FoundOn(pageNumber, detections), 1))
  /\ output' = CallOf("addAutoDetectedRegions", pageNumber, 0)
  /\ UNCHANGED selectedRegionId
  /\ HookUnchanged

\* addManualRegion(pageNumber, region)
HookAddManualRegion(pageNumber, region) ==
  /\ nextId < MaxIds
  /\ redactions' = AddManualRegion(redactions, pageNumber, region)
  /\ nextId' = nextId + 1
  /\ output' = CallOf("addManualRegion", pageNumber, 0)
  /\ UNCHANGED selectedRegionId
  /\ HookUnchanged

\* removeRegion(pageNumber, regionId): the selection it clears
SelectionAfterRemove(selected, regionId) ==
  IF selected = regionId THEN NoSelection ELSE selected

\* removeRegion(pageNumber, regionId)
HookRemoveRegion(pageNumber, regionId) ==
  /\ redactions' = RemoveRegion(redactions, pageNumber, regionId)
  /\ selectedRegionId' = SelectionAfterRemove(selectedRegionId, regionId)
  /\ output' = CallOf("removeRegion", pageNumber, regionId)
  /\ UNCHANGED nextId
  /\ HookUnchanged

\* clearAllRegions(pageNumber)
HookClearAllRegions(pageNumber) ==
  /\ redactions' = ClearAllRegions(redactions, pageNumber)
  /\ selectedRegionId' = NoSelection
  /\ output' = CallOf("clearAllRegions", pageNumber, 0)
  /\ UNCHANGED nextId
  /\ HookUnchanged

\* clearAllRegions()
HookClearEveryPage ==
  /\ redactions' = EmptyMap
  /\ selectedRegionId' = NoSelection
  /\ output' = CallOf("clearAllRegions", 0, 0)
  /\ UNCHANGED nextId
  /\ HookUnchanged

\* selectRegion(regionId)
SelectRegion(regionId) ==
  /\ selectedRegionId' = regionId
  /\ output' = CallOf("selectRegion", 0, regionId)
  /\ UNCHANGED <<redactions, nextId>>
  /\ HookUnchanged

NextStore ==
  \/ \E p \in Pages, ds \in HookDetections : HookAddAutoDetectedRegions(p, ds)
  \/ \E p \in Pages, r \in HookRegions : HookAddManualRegion(p, r)
  \/ \E p \in Pages, id \in 1..MaxIds : HookRemoveRegion(p, id)
  \/ \E p \in Pages : HookClearAllRegions(p)
  \/ HookClearEveryPage
  \/ \E id \in 0..MaxIds : SelectRegion(id)

SpecStore == Init /\ [][NextStore]_vars

----------------------------------------------------------------------------
\* PDFRenderer.renderPage: the calls the render effect makes without waiting for
\* one another.  A call is named by its number; the render task of a call by the
\* same number.

RenderUnchanged ==
  UNCHANGED <<input, output, detector, selectedRegionId, ocrVars, uiVars>>

\* RenderTask.cancel(): a task that is drawing stops and will reject its promise
Cancel(tasks, t) ==
  IF t # 0 /\ tasks[t] = "drawing" THEN [tasks EXCEPT ![t] = "cancelled"] ELSE tasks

\* renderPage up to `await this.pdfDocument.getPage(pageNumber)`
RenderPageBegin(c) ==
  /\ renderCall[c] = "idle"
  /\ \A b \in RenderCalls : b < c => renderCall[b] # "idle"
  /\ renderTask' = Cancel(renderTask, currentRenderTask)
  /\ currentRenderTask' = 0
  /\ renderCall' = [renderCall EXCEPT ![c] = "getPage"]
  /\ RenderUnchanged

\* getPage resolved: the canvas is sized and page.render starts the task
RenderPageStartTask(c) ==
  /\ renderCall[c] = "getPage"
  /\ renderTask' = [renderTask EXCEPT ![c] = "drawing"]
  /\ currentRenderTask' = c
  /\ renderCall' = [renderCall EXCEPT ![c] = "rendering"]
  /\ RenderUnchanged

\* getPage rejected: the catch clears currentRenderTask and throws
RenderPageGetPageFails(c) ==
  /\ renderCall[c] = "getPage"
  /\ currentRenderTask' = 0
  /\ renderCall' = [renderCall EXCEPT ![c] = "threw"]
  /\ UNCHANGED renderTask
  /\ RenderUnchanged

\* the task drew the page: `await this.currentRenderTask.promise` resolves
RenderPageFinishes(c) ==
  /\ renderCall[c] = "rendering"
  /\ renderTask[c] = "drawing"
  /\ renderTask' = [renderTask EXCEPT ![c] = "finished"]
  /\ currentRenderTask' = 0
  /\ renderCall' = [renderCall EXCEPT ![c] = "returned"]
  /\ RenderUnchanged

\* the promise of a cancelled task rejects: the catch clears currentRenderTask and
\* returns, the message of the rejection holding "cancel"
RenderPageCancelled(c) ==
  /\ renderCall[c] = "rendering"
  /\ renderTask[c] = "cancelled"
  /\ currentRenderTask' = 0
  /\ renderCall' = [renderCall EXCEPT ![c] = "returnedCancelled"]
  /\ UNCHANGED renderTask
  /\ RenderUnchanged

NextRender ==
  \/ \E c \in RenderCalls : RenderPageBegin(c)
  \/ \E c \in RenderCalls : RenderPageStartTask(c)
  \/ \E c \in RenderCalls : RenderPageGetPageFails(c)
  \/ \E c \in RenderCalls : RenderPageFinishes(c)
  \/ \E c \in RenderCalls : RenderPageCancelled(c)

SpecRender == Init /\ [][NextRender]_vars



----------------------------------------------------------------------------
\* Steps of the main thread, told from the states before and after.

\* onmessage of Worker w ran on message m.
Delivered(w, m) ==
  /\ wk[w] = "running" /\ wk'[w] = "running"
  /\ outbox[w] # <<>>
  /\ Head(outbox[w]) = m
  /\ outbox'[w] = Tail(outbox[w])

\* terminate() ran with a Worker at hand.
Terminated == worker # 0 /\ worker' = 0

\* The extractText call that was given request id.
CallOfRequest(id) == {c \in Calls : call[c].req = id}

\* The extraction timer of request id fired.
TimerFired(id) ==
  /\ id \in reqTimer /\ id \notin reqTimer'
  /\ ~Terminated
  /\ \A w \in Inits : outbox'[w] = outbox[w]

\* The messages this step posted to Worker w.
Appended(w) ==
  IF Len(inbox'[w]) > Len(inbox[w])
  THEN {i \in (Len(inbox[w]) + 1)..Len(inbox'[w]) : inbox'[w][i].type = "extractText"}
  ELSE {}

NewlyPosted == {c \in Calls : call[c].st # "posted" /\ call'[c].st = "posted"}

\* C1: an extractText request whose timer fires before any answer is rejected with
\* the timeout error and leaves pendingRequests, and a success or error message that
\* names its id afterwards changes nothing on the main thread.
C1_TimeoutRejectsAndForgets ==
  [][ /\ \A c \in Calls :
           /\ (call'[c].st = "posted") => (call'[c].req \in reqTimer' /\ pendingRequests'[call'[c].req] = c)
           /\ (call'[c].st = "rejected" /\ call'[c].err = "opTimeout")
                 => (call'[c].req \notin reqTimer' /\ pendingRequests'[call'[c].req] = 0)
      /\ \A id \in ReqIds :
           TimerFired(id) =>
             /\ pendingRequests'[id] = 0
             /\ \A c \in CallOfRequest(id) :
                  call'[c].st = "rejected" /\ call'[c].err = "opTimeout"
      /\ \A w \in Inits : \A m \in {SuccessMsg(id) : id \in ReqIds}
                                 \cup {ErrorMsg(id, e) : id \in ReqIds, e \in {"invalid", "context", "engineInit"}} :
           (Delivered(w, m)
              /\ \E c \in Calls : call[c].req = m.requestId /\ call[c].st = "rejected"
                                  /\ call[c].err = "opTimeout")
             => UNCHANGED mainSide
    ]_vars

\* a call timed out, its request was handled by the worker and the answer was delivered
C1_Witness ==
  \E c \in Calls :
    /\ call[c].st = "rejected" /\ call[c].err = "opTimeout"
    /\ \A w \in Inits :
         /\ wk[w] # "terminated"
         /\ \A i \in 1..Len(inbox[w]) : inbox[w][i].requestId # call[c].req
         /\ \A i \in 1..Len(outbox[w]) : outbox[w][i].requestId # call[c].req

\* C2: terminate() rejects every extractText call that has not settled with the
\* "terminated" error, posted or still waiting on initialization, and leaves
\* pendingRequests empty, the worker null and isReady() false.
C2_TerminateRejectsEveryCall ==
  [][ Terminated =>
        /\ \A c \in Calls :
             Unsettled(c) => (call'[c].st = "rejected" /\ call'[c].err = "terminated")
        /\ \A id \in ReqIds : pendingRequests'[id] = 0
        /\ worker' = 0
        /\ ~isInitialized'
    ]_vars

\* C3: at most one initialize() is in flight: while the promise of one run is
\* pending no second Worker is made and no second "init" is posted.
C3_OneInitializationInFlight ==
  Cardinality({a \in Inits : initPromise[a] = "pending"}) <= 1

\* C4: when the initTimeout timer fires on a pending initialize() the run is rejected
\* with the initialization-timeout error and its wrapper is no longer installed, so
\* a completion report delivered afterwards changes neither isInitialized nor the
\* installed progress callback.
C4_InitTimeoutCleansUp ==
  [][ /\ \A a \in Inits :
           (a \in initTimer /\ a \notin initTimer' /\ initPromise[a] = "pending"
              /\ \A w \in Inits : outbox'[w] = outbox[w])
             => (initPromise'[a] = "initTimeout" /\ a \notin Range(progressCallback'.wraps))
      /\ \A w \in Inits :
           (Delivered(w, PInitialized) /\ initPromise[w] = "initTimeout")
             => (isInitialized' = isInitialized /\ progressCallback' = progressCallback)
    ]_vars

\* C5: an extractText made while the engine is not initialized starts initialize()
\* and waits; nothing is posted and nothing enters pendingRequests for it until the
\* "OCR engine initialized" report of the Worker it is posted to has resolved that
\* initialize(), and then, as for every call, exactly one "extractText" message is
\* posted for it.
C5_LazyInitThenPostOnce ==
  [][ /\ \A c \in Calls :
           /\ (call[c].st = "idle" /\ call'[c].st = "waitInit")
                 => /\ ~isInitialized
                    /\ initPromise[call'[c].att] = "unused"
                    /\ initPromise'[call'[c].att] = "pending"
                    /\ inbox'[call'[c].att] = <<InitMsg>>
           /\ (call'[c].st = "waitInit")
                 => /\ call'[c].req = 0
                    /\ \A id \in ReqIds : pendingRequests'[id] # c
                    /\ initPromise'[call'[c].att] = "pending"
           /\ (c \in NewlyPosted)
                 => /\ isInitialized'
                    /\ call[c].st \in {"idle", "waitInit"}
                    /\ (call[c].st = "waitInit")
                          => /\ initPromise'[call[c].att] = "resolved"
                             /\ worker' # 0 /\ Delivered(worker', PInitialized)
                    /\ pendingRequests'[call'[c].req] = c
                    /\ Cardinality({<<w, i>> \in Inits \X (1..(MaxCalls + 1)) :
                                      /\ i \in Appended(w)
                                      /\ inbox'[w][i].requestId = call'[c].req}) = 1
           /\ (call[c].req # 0) => (call'[c].req = call[c].req /\ c \notin NewlyPosted)
      /\ \A w \in Inits : \A i \in Appended(w) :
           \E c \in NewlyPosted : call'[c].req = inbox'[w][i].requestId
    ]_vars

\* C6: when the worker answers "init" with an error, the pending initialize() of that
\* Worker, and the extractText waiting on it, are rejected with the initialization
\* failure the worker reported instead of staying pending.
C6_InitFailureReachesCaller ==
  [][ \A w \in Inits :
        (Delivered(w, ErrorMsg(0, "engineInit")) /\ initPromise[w] = "pending")
          => /\ initPromise'[w] = "engineInit"
             /\ \A c \in Calls :
                  (call[c].st = "waitInit" /\ call[c].att = w)
                    => (call'[c].st = "rejected" /\ call'[c].err = "engineInit")
    ]_vars

\* C7: which initialize() runs a delivered report settles does not depend on the
\* progress callback: it is the same with the installed callback and with the one
\* that setProgressCallback would have installed just before the report.
C7_CallbackNotControlFlow ==
  \A w \in Inits :
    (wk[w] = "running" /\ outbox[w] # <<>> /\ Head(outbox[w]).type = "progress")
      => \A cb \in {"user", "detect"} :
           {a \in WrappersFired(progressCallback, Head(outbox[w])) : initPromise[a] = "pending"}
             = {a \in WrappersFired([wraps |-> <<>>, base |-> cb], Head(outbox[w])) :
                  initPromise[a] = "pending"}

\* C10: a detection run whose extractText is rejected is filed as OCR_FAILED and
\* puts the session in manual-only mode; a run whose PII stage fails after a
\* successful extraction is filed as PII_DETECTION_FAILED and does not.
C10_ExtractionFailureIsOcrFailed ==
  [][ \A c \in Calls :
        (call'[c].detect /\ call[c].st \notin {"resolved", "rejected"})
          => /\ (call'[c].st = "rejected")
                   => /\ errorType'[c] = "OCR_FAILED"
                      /\ manualOnlyMode'
                      /\ mode' = "manual-redact"
             /\ (call'[c].st = "resolved" /\ ~call'[c].piiOk)
                   => /\ errorType'[c] = "PII_DETECTION_FAILED"
                      /\ manualOnlyMode' = manualOnlyMode
    ]_vars

\* C8: the pixels an export of page p paints over the document are exactly the
\* pixels of the regions stored for p when it is made: each stored region in full,
\* and nothing for a region that is not in the store.
C8_ExportPaintsStoredRegions ==
  exported # NoExport =>
    exported.image.black \cup exported.image.overlay = PixelsOfAll(exported.stored)

\* C9: no region moves between pages: a step changes the regions of no page but the
\* current one, and every region made from a detection is stored under the page the
\* detection was found on.
C9_NoRegionMigrates ==
  [][ /\ \A q \in Pages : q # currentPage =>
           GetRegionsForPage(redactions', q) = GetRegionsForPage(redactions, q)
      /\ \A p \in DOMAIN redactions' :
           \A k \in 1..Len(redactions'[p]) : redactions'[p][k].origin = p
    ]_vars

----------------------------------------------------------------------------
\* The span of word k as the scan locates it: indexOf from the end of the last
\* word located before it; -1 when the word is not found.
RECURSIVE ScanCursor(_, _, _)
ScanCursor(text, words, k) ==
  IF k = 0 THEN 0
  ELSE LET at == IndexOf(text, words[k].text, ScanCursor(text, words, k - 1))
       IN IF at = -1 THEN ScanCursor(text, words, k - 1) ELSE at + Len(words[k].text)

SpanStart(text, words, k) == IndexOf(text, words[k].text, ScanCursor(text, words, k - 1))

\* The number of characters of word k inside [s, e).
SpanOverlap(text, words, k, s, e) ==
  LET a == SpanStart(text, words, k)
      b == a + Len(words[k].text)
  IN Max(0, Min(b, e) - Max(a, s))

RECURSIVE LuhnSum(_, _)
LuhnSum(digits, p) ==
  IF p > Len(digits) THEN 0
  ELSE LET d == DigitValue(digits[Len(digits) + 1 - p])
           v == IF p % 2 = 0 THEN (IF 2 * d > 9 THEN 2 * d - 9 ELSE 2 * d) ELSE d
       IN v + LuhnSum(digits, p + 1)

Qualifies(text, words, k, s, e) ==
  /\ SpanStart(text, words, k) # -1
  /\ 2 * SpanOverlap(text, words, k, s, e) > Len(words[k].text)

\* The detection that detections holds for the match of pattern key at index s.
DetectionsAt(detections, key, s) ==
  {i \in 1..Len(detections) : detections[i].type = key /\ detections[i].startIndex = s}

Unadjusted(d) ==
  [num |-> (CASE d.type = "email" -> 95 [] d.type = "ssn" -> 98
              [] d.type \in {"creditCard", "credit_card"} -> 90
              [] d.type = "phone" -> 85
              [] d.type \in {"dateOfBirth", "date_of_birth"} -> 75
              [] OTHER -> 70) * 7 * Len(d.words) + 3 * SumConfidence(d.words),
   den |-> 1000 * Len(d.words)]

\* The card numbers among the tokens.
IsCardToken(text) == text \in {TokCard.text, TokCardBad.text}

\* C13: a credit-card match whose digits fail the Luhn check is returned with half
\* the confidence it would have without the check, and one that passes with all of it.
C13_LuhnFailureHalvesConfidence ==
  output.kind = "detect" =>
    /\ \A k \in 1..Len(input.tokens) :
         (IsCardToken(input.tokens[k].text) /\ input.reads[k] # -1)
           => \E i \in 1..Len(output.detections) : output.detections[i].text = input.tokens[k].text
    /\ \A i \in 1..Len(output.detections) :
         LET d == output.detections[i]
         IN IsCardToken(d.text) =>
              IF LuhnSum(StripSeparators(d.text), 1) % 10 = 0
              THEN d.confidence.num * Unadjusted(d).den = Unadjusted(d).num * d.confidence.den
              ELSE 2 * d.confidence.num * Unadjusted(d).den = Unadjusted(d).num * d.confidence.den

\* C14: the type of every detection detectPII returns is a member of PIIType.
C14_TypesAreInEnumeration ==
  output.kind = "detect" =>
    \A i \in 1..Len(output.detections) : output.detections[i].type \in PIITypes

KeyIndex(type) == CHOOSE p \in 1..Len(PatternKeys) : PatternKeys[p] = type

\* Two character ranges have a position in common.
Intersect(a, b) ==
  \E x \in 0..MaxRangeEnd : /\ a.startIndex <= x /\ x < a.endIndex
                            /\ b.startIndex <= x /\ x < b.endIndex

\* C16: mergeDetections returns the detections of the model followed by the pattern
\* detections that share no position with any of them, in their order, and drops no
\* other; without detections of the model it returns the pattern detections.
C16_MergeKeepsNonOverlapping ==
  /\ output.kind = "merge" =>
       /\ output.detections =
            input.onnxDetections
              \o SelectSeq(input.regexDetections,
                           LAMBDA r : \A i \in 1..Len(input.onnxDetections) :
                                        ~Intersect(input.onnxDetections[i], r))
       /\ input.onnxDetections = <<>> => output.detections = input.regexDetections
  /\ output.kind = "detect" =>
       \A i, j \in 1..Len(output.detections) :
         i < j =>
           \/ KeyIndex(output.detections[i].type) < KeyIndex(output.detections[j].type)
           \/ /\ output.detections[i].type = output.detections[j].type
              /\ output.detections[i].startIndex < output.detections[j].startIndex

\* of two pattern detections one is dropped for a detection of the model and the
\* other, which only touches it, is kept
C16_Witness ==
  /\ output.kind = "merge"
  /\ Len(input.onnxDetections) = 1
  /\ Len(input.regexDetections) = 2
  /\ Len(output.detections) = 2
  /\ output.detections[2].startIndex = input.onnxDetections[1].endIndex

\* C17: when the model does not load or inference throws, detectPII does not fail
\* and returns what pattern detection alone returns for the text and the words.
C17_DegradesToPatterns ==
  output.kind = "detect" =>
    /\ ~output.failed
    /\ output.detections = DetectWithRegex(input.tokens, WordsOf(input.tokens, input.reads))
    /\ (input.modelPath # "" /\ ~input.loads) => ~detector.useONNX

\* inference threw on a loaded model and the pattern detections are returned
C17_Witness ==
  /\ output.kind = "detect"
  /\ input.modelPath # ""
  /\ input.loads /\ input.throws
  /\ output.detections # <<>>

\* The words of a detection that begin a line: the first, and every word whose
\* top is 5 or more away from the top of the word before it.
LineStarts(words) ==
  {i \in 1..Len(words) : i = 1 \/ Abs(words[i].y0 - words[i - 1].y0) >= 5}

\* The k-th line start, and the last word of the line that starts at word s.
KthStart(words, k) ==
  CHOOSE s \in LineStarts(words) : Cardinality({t \in LineStarts(words) : t < s}) = k - 1

LineEnd(words, s) ==
  CHOOSE e \in s..Len(words) :
    /\ \A i \in (s + 1)..e : i \notin LineStarts(words)
    /\ e = Len(words) \/ e + 1 \in LineStarts(words)

\* The regions expected of a detection, without their ids.
ExpectedRegions(detection) ==
  [k \in 1..Cardinality(LineStarts(detection.words)) |->
     LET s == KthStart(detection.words, k)
         e == LineEnd(detection.words, s)
     IN [x |-> detection.words[s].x0, y |-> detection.words[s].y0,
         width |-> detection.words[e].x1 - detection.words[s].x0,
         height |-> detection.words[e].y1 - detection.words[s].y0,
         piiType |-> detection.type, confidence |-> detection.confidence,
         isManual |-> FALSE]]

RECURSIVE ExpectedOfAll(_)
ExpectedOfAll(detections) ==
  IF detections = <<>> THEN <<>>
  ELSE ExpectedRegions(Head(detections)) \o ExpectedOfAll(Tail(detections))

\* Stored regions without their ids.
WithoutIds(rs) ==
  [i \in 1..Len(rs) |->
     [x |-> rs[i].x, y |-> rs[i].y, width |-> rs[i].width, height |-> rs[i].height,
      piiType |-> rs[i].piiType, confidence |-> rs[i].confidence,
      isManual |-> rs[i].isManual]]

C20_SmallManualRegionRejected ==
  output.kind = "manual" =>
    IF input.region.width < 5 \/ input.region.height < 5
    THEN output.redactions = input.prior
    ELSE /\ \A p \in Pages \ {input.pageNumber} :
              GetRegionsForPage(output.redactions, p) = GetRegionsForPage(input.prior, p)
         /\ Len(GetRegionsForPage(output.redactions, input.pageNumber))
              = Len(GetRegionsForPage(input.prior, input.pageNumber)) + 1

\* The places of the region with the given id in a list of regions.
PlacesOf(rs, regionId) == {k \in 1..Len(rs) : rs[k].id = regionId}

\* C21: removeRegion(page, id) takes the region with that id out of the page's list
\* and changes no other region and no other page; a page left without regions has no
\* key in the store and getRegionsForPage gives the empty list for it; a selection of
\* the removed id is cleared, any other selection stays.
C21_RemoveRegionRemovesOne ==
  output.kind = "removeRegion" =>
    LET p == output.pageNumber
        before == GetRegionsForPage(output.prior, p)
        after == GetRegionsForPage(redactions, p)
        hits == PlacesOf(before, output.regionId)
    IN /\ \A q \in Pages \ {p} :
            /\ q \in DOMAIN redactions <=> q \in DOMAIN output.prior
            /\ GetRegionsForPage(redactions, q) = GetRegionsForPage(output.prior, q)
       /\ Cardinality(hits) <= 1
       /\ hits = {} => after = before
       /\ \A k \in hits : after = SubSeq(before, 1, k - 1) \o SubSeq(before, k + 1, Len(before))
       /\ after = <<>> => p \notin DOMAIN redactions
       /\ selectedRegionId = IF output.selected = output.regionId THEN NoSelection
                             ELSE output.selected

\* the selected region, the only one of its page, is removed while the other page
\* holds regions
C21_Witness ==
  /\ output.kind = "removeRegion"
  /\ Len(GetRegionsForPage(output.prior, output.pageNumber)) = 1
  /\ PlacesOf(GetRegionsForPage(output.prior, output.pageNumber), output.regionId) = {1}
  /\ output.selected = output.regionId
  /\ output.pageNumber \notin DOMAIN redactions
  /\ selectedRegionId = NoSelection
  /\ DOMAIN redactions # {}

\* C27: no page key of the store maps to an empty list.
C27_NoEmptyPageKey ==
  \A p \in DOMAIN redactions : redactions[p] # <<>>

\* A region carries a PII type and a confidence, or neither of them.
Typed(r) == "piiType" \in DOMAIN r /\ "confidence" \in DOMAIN r
Untyped(r) == "piiType" \notin DOMAIN r /\ "confidence" \notin DOMAIN r

\* The region is typed iff it is not manual.
TypedIffAuto(r) == IF r.isManual THEN Untyped(r) ELSE Typed(r)

\* C22: every region of the store, and every region the RedactionManager holds after
\* the render step, has a PII type and a confidence iff it is not manual, and a region
\* drawn with the mouse is stored as a manual region.
C22_TypedIffNotManual ==
  \A p \in DOMAIN redactions :
    /\ \A k \in 1..Len(redactions[p]) :
         /\ TypedIffAuto(redactions[p][k])
         /\ \A i \in 1..Len(regions) :
              ( /\ regions[i].x = redactions[p][k].x
                /\ regions[i].y = redactions[p][k].y
                /\ regions[i].width = redactions[p][k].width
                /\ regions[i].height = redactions[p][k].height )
                => redactions[p][k].isManual
    /\ \A k \in 1..Len(ManagerRegions(redactions, p)) :
         TypedIffAuto(ManagerRegions(redactions, p)[k])

Unfinished == {c \in RenderCalls : renderCall[c] \in {"getPage", "rendering"}}

\* C24: at most one render task draws to the canvas at a time; once a newer call has
\* begun, no task of an earlier call draws; no call that was overtaken throws; and
\* currentRenderTask is null or the task of the newest unfinished call.
C24_NewerRenderCancelsEarlier ==
  /\ Cardinality({t \in RenderCalls : renderTask[t] = "drawing"}) <= 1
  /\ \A a, b \in RenderCalls :
       (a < b /\ renderCall[b] # "idle") => renderTask[a] # "drawing"
  /\ currentRenderTask # 0 =>
       /\ Unfinished # {}
       /\ \A c \in Unfinished : c <= currentRenderTask

\* The pages of a cache that keeps the most recently cached ones: caching a page
\* makes it the most recent, and the least recent go when there are too many.
RecentAfter(recent, c) ==
  CASE c.op = "cachePage" ->
         LET moved == Append(SelectSeq(recent, LAMBDA k : k # c.page), c.page)
         IN IF Len(moved) > 10 THEN SubSeq(moved, Len(moved) - 9, Len(moved)) ELSE moved
    [] c.op = "cachePageFails" -> <<>>
    [] c.op = "clearPageCache" -> SelectSeq(recent, LAMBDA k : k # c.page)
    [] c.op = "clearPageCacheAll" -> <<>>
    [] c.op = "clearDistantPages" ->
         SelectSeq(recent, LAMBDA k : k >= c.page - 3 /\ k >= 1 /\ k <= c.page + 3)

RECURSIVE RecentStates(_, _)
RecentStates(recent, calls) ==
  IF calls = <<>> THEN <<>>
  ELSE <<RecentAfter(recent, Head(calls))>>
         \o RecentStates(RecentAfter(recent, Head(calls)), Tail(calls))

PagesIn(keys) == {keys[k] : k \in 1..Len(keys)}

\* C25: after every call the cache holds at most 10 pages, and they are the pages
\* a cache of the 10 most recently cached pages holds.
C25_CacheKeepsMostRecent ==
  output.kind = "cache" =>
    \A i \in 1..Len(output.states) :
      /\ Len(output.states[i]) <= 10
      /\ PagesIn(output.states[i])
           = PagesIn(RecentStates(input.pageCache, input.calls)[i])

\* How often a region, ids aside, occurs in a list of regions.
CountOf(rs, x) == Cardinality({k \in 1..Len(rs) : WithoutIds(rs)[k] = x})
RegionsIn(rs) == {WithoutIds(rs)[k] : k \in 1..Len(rs)}

\* C26: switching a detection off takes from the page every region made from it, all
\* of its lines, and no other region; switching it on adds them; so off and on again
\* leaves the regions of the page, ids aside, as they were.
C26_ToggleRoundTrip ==
  [][ \A i \in 1..MaxIds :
        HandleToggleDetection(i) =>
          LET before == GetRegionsForPage(redactions, currentPage)
              after == GetRegionsForPage(redactions', currentPage)
              made == ExpectedRegions(piiDetections[i])
          IN \A x \in RegionsIn(before) \cup RegionsIn(after) \cup {made[k] : k \in 1..Len(made)} :
               CountOf(after, x) =
                 IF i \in enabledDetections
                 THEN Max(0, CountOf(before, x) - Cardinality({k \in 1..Len(made) : made[k] = x}))
                 ELSE CountOf(before, x) + Cardinality({k \in 1..Len(made) : made[k] = x})
    ]_vars

----------------------------------------------------------------------------
\* The answers of a Worker that name request id.
AnswersOf(id) ==
  {SuccessMsg(id)} \cup {ErrorMsg(id, e) : e \in {"invalid", "context", "engineInit"}}

\* The ways this step can have settled the request id of call c, each with the
\* outcome it gives the call.
SettledBySuccess(c, id) ==
  /\ \E w \in Inits : Delivered(w, SuccessMsg(id))
  /\ call'[c].st = "resolved"

SettledByError(c, id) ==
  \E w \in Inits, e \in {"invalid", "context", "engineInit"} :
    /\ Delivered(w, ErrorMsg(id, e))
    /\ call'[c].st = "rejected" /\ call'[c].err = e

SettledByTimeout(c, id) ==
  /\ TimerFired(id)
  /\ call'[c].st = "rejected" /\ call'[c].err = "opTimeout"

SettledByTerminate(c, id) ==
  /\ Terminated
  /\ call'[c].st = "rejected" /\ call'[c].err = "terminated"

SettleCauses(c, id) ==
  Cardinality({k \in 1..4 :
     CASE k = 1 -> SettledBySuccess(c, id)
       [] k = 2 -> SettledByError(c, id)
       [] k = 3 -> SettledByTimeout(c, id)
       [] k = 4 -> SettledByTerminate(c, id)})

\* C28: every posted extractText request is settled once, by one of success, error,
\* timeout and terminate; pendingRequests holds the posted requests that have not
\* settled, each with its timer armed; request ids are not reused, an answer
\* settles only the call that was given its id, and an answer for an id that is
\* not pending changes nothing on the main thread.
C28_RequestSettledExactlyOnce ==
  [][ /\ \A id \in ReqIds :
           /\ (pendingRequests'[id] # 0) <=>
                 (\E c \in Calls : call'[c].st = "posted" /\ call'[c].req = id)
           /\ (pendingRequests'[id] # 0) =>
                 (call'[pendingRequests'[id]].st = "posted" /\ call'[pendingRequests'[id]].req = id)
           /\ (id \in reqTimer') <=> (pendingRequests'[id] # 0)
      /\ \A c, d \in Calls :
           (c # d /\ call'[c].req # 0 /\ call'[d].req # 0) => call'[c].req # call'[d].req
      /\ \A c \in Calls : call'[c].req <= requestCounter'
      /\ \A c \in NewlyPosted : call'[c].req > requestCounter
      /\ \A c \in Calls :
           /\ Settled(c) => call'[c] = call[c]
           /\ call[c].st = "posted" =>
                /\ call'[c].st \in {"posted", "resolved", "rejected"}
                /\ call'[c].req = call[c].req
                /\ call'[c].st # "posted" => SettleCauses(c, call[c].req) = 1
                /\ call'[c].st = "posted" => SettleCauses(c, call[c].req) = 0
      /\ \A w \in Inits, id \in ReqIds : \A m \in AnswersOf(id) :
           Delivered(w, m) =>
             /\ \A c \in Calls : call'[c] # call[c] => call[c].req = id
             /\ pendingRequests[id] = 0 => UNCHANGED mainSide
    ]_vars

\* one call was resolved by its answer, another was rejected by the error answer of
\* its own request, and the answers of both have been delivered
C28_Witness ==
  \E c, d \in Calls :
    /\ c # d
    /\ call[c].st = "resolved" /\ call[c].req # 0
    /\ call[d].st = "rejected" /\ call[d].err \in {"invalid", "context", "engineInit"}
    /\ call[d].req # 0 /\ call[d].req # call[c].req
    /\ pendingRequests = [id \in ReqIds |-> 0]
    /\ reqTimer = {}

----------------------------------------------------------------------------
\* Region r covers the box of word w.
Covers(r, w) ==
  /\ r.x <= w.x0
  /\ r.y <= w.y0
  /\ r.x + r.width >= w.x1
  /\ r.y + r.height >= w.y1

\* C29: the region made for a line of a detection covers the box of every word of
\* that line, for the words that the 5-pixel tolerance puts on one line.
C29_RegionCoversEveryWord ==
  output.kind = "regions" =>
    LET words == input.detections[1].words
        before == Len(GetRegionsForPage(input.prior, input.pageNumber))
        after == GetRegionsForPage(output.redactions, input.pageNumber)
    IN \A k \in 1..Cardinality(LineStarts(words)) :
         LET s == KthStart(words, k)
         IN \A i \in s..LineEnd(words, s) : Covers(after[before + k], words[i])

----------------------------------------------------------------------------
\* Timers fire: a timer that is armed does not stay armed for ever.  The step that
\* disarms it is a step of Next: the timer's own callback, or the clearTimeout of
\* the handler that settles the request or the initialization first.  Because each
\* callback is enabled exactly while its timer is armed and disarms it, this is weak
\* fairness of RequestTimeoutFires(id) and of InitTimeoutFires(a).  Nothing is
\* assumed of the Worker, of its messages or of the calls made on the main thread.
RequestTimerGoesOff(id) == id \in reqTimer /\ reqTimer' = reqTimer \ {id}

InitTimerGoesOff(a) == a \in initTimer /\ initTimer' = initTimer \ {a}

TimersFire ==
  /\ \A id \in ReqIds : WF_reqTimer(RequestTimerGoesOff(id))
  /\ \A a \in Inits : WF_initTimer(InitTimerGoesOff(a))

SpecLive == Init /\ [][Next]_vars /\ TimersFire

\* C30: with timers that fire, every extractText call that has not settled is
\* resolved or rejected in the end, whatever the Worker does and whatever calls come
\* between; so the session does not stay processing for ever.
C30_EveryCallSettles ==
  /\ \A c \in Calls : Unsettled(c) ~> Settled(c)
  /\ isProcessing ~> ~isProcessing

\* a detection run whose Worker never answered was ended by a timer
C30_Witness ==
  \E c \in Calls :
    /\ call[c].detect
    /\ call[c].st = "rejected" /\ call[c].err \in {"opTimeout", "initTimeout"}
    /\ ~isProcessing
    /\ \A w \in Inits : outbox[w] = <<>> /\ engineReady[w] = FALSE
====
